---- MODULE Spec2Model ----
(***************************************************************************)
(* State-machine model of the document sync reconciler of the WhatsApp     *)
(* chatbot backend: the Google Sheet sync handler                          *)
(* (src/app/api/sync-google-sheet/route.ts), the Google Doc sync handler   *)
(* (unnamed/part_002), the save-mapping handlers, the placeholder mapping  *)
(* of generate-system-prompt and the chunk retrieval of lib/retrieval.ts.  *)
(*                                                                         *)
(* Tables are sets of rows.  Every await of a handler is one step.         *)
(***************************************************************************)
EXTENDS Integers, Sequences, FiniteSets, TLC

(***************************************************************************)
(* Bounds of the model                                                     *)
(***************************************************************************)
\* number of sync invocations one behaviour starts (each takes a new clock value)
MaxClock == 3
\* rows of a fetched sheet, header included
MaxSheetRows == 3
\* characters of a fetched document
MaxDocLen == 3
\* handler invocations that may be in flight at once
MaxProcs == 2

\* BATCH_SIZE of the sheet sync is 50; scaled down so that a sheet of
\* MaxSheetRows rows can span more than one batch
BATCH_SIZE == 2
\* chunkText(docText, 1600, 200); scaled down so that a document of MaxDocLen
\* characters is cut into several chunks
ChunkSize == 2
ChunkOverlap == 1

Phones == {"p1", "p2"}
\* tenants that connect a document as well as a sheet
DocPhones == {"p1"}
Procs == 1..MaxProcs
GOOGLE_SHEET == "google_sheet"
GOOGLE_DOC == "google_doc"
Sources == {GOOGLE_SHEET, GOOGLE_DOC}

(***************************************************************************)
(* Text helpers.  A cell and a document are sequences of one-character     *)
(* strings; a chunk's content is a string.                                 *)
(***************************************************************************)
RECURSIVE Str(_)
\* the characters of cs as one string
Str(cs) == IF cs = <<>> THEN "" ELSE Head(cs) \o Str(Tail(cs))

RECURSIVE TrimLeft(_)
TrimLeft(cs) == IF cs # <<>> /\ Head(cs) = " " THEN TrimLeft(Tail(cs)) ELSE cs

RECURSIVE TrimRight(_)
TrimRight(cs) ==
    IF cs # <<>> /\ cs[Len(cs)] = " " THEN TrimRight(SubSeq(cs, 1, Len(cs) - 1)) ELSE cs

\* String.prototype.trim on a cell
Trim(cs) == TrimRight(TrimLeft(cs))

RECURSIVE JoinCells(_)
\* Array.prototype.join(" | ") over already trimmed, non-empty cells
JoinCells(cells) ==
    IF cells = <<>> THEN ""
    ELSE IF Len(cells) = 1 THEN Str(cells[1])
    ELSE Str(cells[1]) \o " | " \o JoinCells(Tail(cells))

\* Array.prototype.filter is SelectSeq; Array.prototype.map over a sequence s
\* is [i \in DOMAIN s |-> f(s[i])]
Range(s) == {s[i] : i \in DOMAIN s}

Min(a, b) == IF a <= b THEN a ELSE b

\* SHA-256 hex digest.  The digest is modelled as an injective tagging of the
\* text: deterministic, and free of collisions like SHA-256 in practice.
hashRow(text) == "sha256:" \o text

(***************************************************************************)
(* Inputs: what the Google APIs may return                                 *)
(***************************************************************************)
\* rows of a sheet: each row is a sequence of cells
RowAB == << <<"a">>, <<>>, <<" ", "b", " ">> >>
RowC == << <<"c">> >>
RowBlank == << <<" ">>, <<>> >>
SheetRows == {RowAB, RowC, RowBlank}
\* readGoogleSheet(sheet_id, "A1:Z10000"): any grid of at most MaxSheetRows rows
SheetValues == UNION {[1..n -> SheetRows] : n \in 0..MaxSheetRows}

DocAlphabet == {"x"}
\* the text of a document before readGoogleDoc trims it
DocTexts == UNION {[1..n -> DocAlphabet] : n \in 0..MaxDocLen}

(***************************************************************************)
(* Pure functions of the handlers                                          *)
(***************************************************************************)
\* a row string of the cells as fetched: not trimmed, only the empty ones dropped
RowStringUntrimmed(row) == JoinCells(SelectSeq(row, LAMBDA c : c # <<>>))

\* sync-google-sheet/route.ts 116-119: trimmed non-empty cells joined by " | "
RowString(row) ==
    JoinCells(SelectSeq([i \in DOMAIN row |-> Trim(row[i])], LAMBDA c : c # <<>>))

\* row data whose hash is taken of the cells as fetched, before trimming
SheetRowDataRawHash(sheetData) ==
    LET kept == SelectSeq(Tail(sheetData), LAMBDA row : RowString(row) # "")
    IN  [i \in DOMAIN kept |->
            [hash |-> hashRow(RowStringUntrimmed(kept[i])), content |-> RowString(kept[i])]]

\* sync-google-sheet/route.ts 105-133: header skipped, blank rows skipped,
\* one {hash, content} per remaining row
SheetRowData(sheetData) ==
    LET dataRows == Tail(sheetData)
        strings == [i \in DOMAIN dataRows |-> RowString(dataRows[i])]
        kept == SelectSeq(strings, LAMBDA str : str # "")
    IN  [i \in DOMAIN kept |-> [hash |-> hashRow(kept[i]), content |-> kept[i]]]

RECURSIVE chunkFromPastEnd(_, _, _, _)
\* a fragmenter that goes on while a window still starts inside the text, also
\* after a window has reached the end of the text
chunkFromPastEnd(text, start, size, overlap) ==
    IF start > Len(text) THEN <<>>
    ELSE <<SubSeq(text, start, Min(start + size - 1, Len(text)))>>
         \o chunkFromPastEnd(text, start + (size - overlap), size, overlap)

RECURSIVE chunkFromNoOverlap(_, _, _, _)
\* a fragmenter whose windows follow one another without overlap
chunkFromNoOverlap(text, start, size, overlap) ==
    IF start > Len(text) THEN <<>>
    ELSE <<SubSeq(text, start, Min(start + size - 1, Len(text)))>>
         \o chunkFromNoOverlap(text, start + size, size, overlap)

RECURSIVE chunkFrom(_, _, _, _)
\* the windows from position start on; the window that reaches the end of the
\* text is the last one and may be shorter than size
chunkFrom(text, start, size, overlap) ==
    IF start > Len(text) THEN <<>>
    ELSE IF start + size - 1 >= Len(text) THEN <<SubSeq(text, start, Len(text))>>
    ELSE <<SubSeq(text, start, start + size - 1)>>
         \o chunkFrom(text, start + (size - overlap), size, overlap)

\* lib/chunk chunkText: windows of at most `size` characters, each starting
\* size - overlap characters after the previous one, so that consecutive
\* windows share `overlap` characters
chunkText(text, size, overlap) == chunkFrom(text, 1, size, overlap)

\* part_002 106-129: one {hash, content} per chunk of the document
DocChunkData(docText) ==
    LET cs == chunkText(docText, ChunkSize, ChunkOverlap)
    IN  [i \in DOMAIN cs |-> [hash |-> hashRow(Str(cs[i])), content |-> Str(cs[i])]]

\* currentSheetHashes / currentDocHashes
CurrentHashes(rowData) == {rowData[i].hash : i \in DOMAIN rowData}

(***************************************************************************)
(* The reconciler: sync-google-sheet/route.ts 163-172, part_002 159-168    *)
(***************************************************************************)
\* new Set(existingChunks.map(c => c.row_hash))
ExistingHashes(existingChunks) ==
    {existingChunks[i].row_hash : i \in DOMAIN existingChunks}

\* new Map(existingChunks.map(c => [c.row_hash, c])).get(h): of several chunks
\* with one hash the last one stays in the Map
ExistingHashToChunk(existingChunks, h) ==
    LET at == {i \in DOMAIN existingChunks : existingChunks[i].row_hash = h}
    IN  existingChunks[CHOOSE i \in at : \A j \in at : j <= i]

\* a reconciler that forgets to filter the current rows
ToAddUnfiltered(rowData, existingChunks) == rowData

ToAdd(rowData, existingChunks) ==
    SelectSeq(rowData, LAMBDA row : row.hash \notin ExistingHashes(existingChunks))

\* a reconciler that tests the stored hashes against themselves
ToDeleteAgainstExisting(rowData, existingChunks) ==
    SelectSeq(existingChunks, LAMBDA chunk : chunk.row_hash \notin ExistingHashes(existingChunks))

ToDelete(rowData, existingChunks) ==
    SelectSeq(existingChunks, LAMBDA chunk : chunk.row_hash \notin CurrentHashes(rowData))

\* a reconciler whose content comparison is inverted
ToUpdateInverted(rowData, existingChunks) ==
    SelectSeq(rowData, LAMBDA row :
        /\ row.hash \in ExistingHashes(existingChunks)
        /\ ExistingHashToChunk(existingChunks, row.hash).content = row.content)

ToUpdate(rowData, existingChunks) ==
    SelectSeq(rowData, LAMBDA row :
        /\ row.hash \in ExistingHashes(existingChunks)
        /\ ExistingHashToChunk(existingChunks, row.hash).content # row.content)

(***************************************************************************)
(* State                                                                   *)
(***************************************************************************)
VARIABLES
    chunks,                 \* table chunks: rows [id, phone_number, content, embedding, source, row_hash]
    google_sheet_mappings,  \* table: rows [phone_number, sheet_id, last_synced_at, last_row_count]
    google_doc_mappings,    \* table: rows [phone_number, doc_id, last_synced_at, last_chunk_count]
    phone_document_mapping, \* table: rows [phone_number, file_id]
    now,                    \* the clock new Date() reads
    procs,                  \* the sync invocations in flight, by slot
    lastSync,               \* history: the partition and fetched content of the last sync that was answered, if it succeeded
    retrieved,              \* result of the last retrieveRelevantChunksForPhoneNumber call
    plan                    \* inputs and result of a stand-alone run of the reconciler

VARIABLES
    whatsapp_messages,      \* table: rows [message_id, from_number, to_number, content_text, event_type, received_at, auto_respond_sent]
    deliveries,             \* the webhook invocations in flight, by slot
    outbox                  \* history: what the WhatsApp API accepted for sending, in order

syncVars == <<chunks, google_sheet_mappings, google_doc_mappings, phone_document_mapping,
              now, procs, lastSync, retrieved, plan>>

webhookVars == <<whatsapp_messages, deliveries, outbox>>

vars == <<chunks, google_sheet_mappings, google_doc_mappings, phone_document_mapping,
          now, procs, lastSync, retrieved, plan, whatsapp_messages, deliveries, outbox>>

NULL == 0   \* last_synced_at of a mapping that never synced; clock values start at 1

Partitions == Phones \X Sources

SourceOf(kind) == IF kind = "sheet" THEN GOOGLE_SHEET ELSE GOOGLE_DOC

\* lib/embeddings embedText: the vector of a text (one coordinate stands for the 1024)
EmbeddingOf(content) == Len(content)

\* .from("chunks").select("id, row_hash, content").eq("phone_number", p).eq("source", s)
\* as a sequence in id order
RECURSIVE SortById(_)
SortById(rows) ==
    IF rows = {} THEN <<>>
    ELSE LET first == CHOOSE r \in rows : \A q \in rows : r.id <= q.id
         IN  <<first>> \o SortById(rows \ {first})

\* a select that leaves out .eq("phone_number", ...)
SelectChunksAnyPhone(phone, source) ==
    LET rows == {c \in chunks : c.source = source}
        sorted == SortById(rows)
    IN  [i \in DOMAIN sorted |->
            [id |-> sorted[i].id, row_hash |-> sorted[i].row_hash, content |-> sorted[i].content]]

\* a select that leaves out .eq("source", ...)
SelectChunksAnySource(phone, source) ==
    LET rows == {c \in chunks : c.phone_number = phone}
        sorted == SortById(rows)
    IN  [i \in DOMAIN sorted |->
            [id |-> sorted[i].id, row_hash |-> sorted[i].row_hash, content |-> sorted[i].content]]

SelectChunks(phone, source) ==
    LET rows == {c \in chunks : c.phone_number = phone /\ c.source = source}
        sorted == SortById(rows)
    IN  [i \in DOMAIN sorted |->
            [id |-> sorted[i].id, row_hash |-> sorted[i].row_hash, content |-> sorted[i].content]]

\* ids some invocation in flight still holds from its select
HeldIds ==
    UNION {{procs[p].existingChunks[i].id : i \in DOMAIN procs[p].existingChunks} : p \in Procs}

\* gen_random_uuid(): an id no row has and no invocation remembers
FreshId(table) ==
    CHOOSE n \in 1..(Cardinality(table) + Cardinality(HeldIds) + 1) :
        /\ n \notin {c.id : c \in table} \cup HeldIds
        /\ \A m \in 1..(n - 1) : m \in {c.id : c \in table} \cup HeldIds

\* an insert that skips a row whose hash the partition already holds
InsertChunksSkipStored(table, phone, source, rows) ==
    LET held == {c.row_hash : c \in {d \in table : d.phone_number = phone /\ d.source = source}}
        fresh == SelectSeq(rows, LAMBDA row : row.hash \notin held)
        top == CHOOSE n \in 0..(Cardinality(table) + Cardinality(HeldIds) + 1) :
                  \A k \in {c.id : c \in table} \cup HeldIds : k <= n
    IN  table \cup {[id |-> top + i, phone_number |-> phone,
                     content |-> fresh[i].content, embedding |-> Len(fresh[i].content),
                     source |-> source, row_hash |-> fresh[i].hash] : i \in DOMAIN fresh}

\* an insert that writes the first new row over a row the partition already holds
InsertChunksOverwriting(table, phone, source, rows) ==
    LET mine == {c \in table : c.phone_number = phone /\ c.source = source}
        top == CHOOSE n \in 0..(Cardinality(table) + Cardinality(HeldIds) + 1) :
                  \A k \in {c.id : c \in table} \cup HeldIds : k <= n
    IN  IF rows = <<>> THEN table
        ELSE IF mine # {}
        THEN LET old == CHOOSE c \in mine : \A d \in mine : c.id <= d.id
             IN  (table \ {old}) \cup {[old EXCEPT !.content = rows[1].content]}
        ELSE table \cup {[id |-> top + i, phone_number |-> phone,
                          content |-> rows[i].content, embedding |-> Len(rows[i].content),
                          source |-> source, row_hash |-> rows[i].hash] : i \in DOMAIN rows}

RECURSIVE InsertChunks(_, _, _, _)
\* .from("chunks").insert(rows): each row gets an id of its own
InsertChunks(table, phone, source, rows) ==
    IF rows = <<>> THEN table
    ELSE InsertChunks(
            table \cup {[id |-> FreshId(table), phone_number |-> phone,
                         content |-> Head(rows).content,
                         embedding |-> EmbeddingOf(Head(rows).content),
                         source |-> source, row_hash |-> Head(rows).hash]},
            phone, source, Tail(rows))

\* .from("chunks").delete().in("id", ids)
DeleteChunks(table, ids) == {c \in table : c.id \notin ids}

\* .from("chunks").update({content, embedding}).eq("id", id)
UpdateChunk(table, id, content) ==
    {IF c.id = id
        THEN [c EXCEPT !.content = content, !.embedding = EmbeddingOf(content)]
        ELSE c : c \in table}

(***************************************************************************)
(* A sync invocation (POST of sync-google-sheet or of sync-google-doc)     *)
(***************************************************************************)
NoFetch == [early |-> FALSE, rowData |-> <<>>]

IdleProc ==
    [pc |-> "idle", kind |-> "", phone |-> "",
     fetched |-> NoFetch,        \* rowData / chunkData, and whether the handler returned at the emptiness test
     existingChunks |-> <<>>, toAdd |-> <<>>, toDelete |-> <<>>, toUpdate |-> <<>>,
     i |-> 1,                    \* position of the running loop
     added |-> 0, deleted |-> 0, updated |-> 0,
     status |-> 0, error |-> "",
     mappingBefore |-> {},       \* history: the tenant's mapping row when the invocation started
     failedAt |-> 0,             \* history: position in toAdd / toUpdate of the chunk whose embedding failed
     wroteMeta |-> FALSE]        \* history: the invocation's metadata update was applied

Bodies ==
    {[valid |-> FALSE, phone_number |-> ""]}
        \cup {[valid |-> TRUE, phone_number |-> ph] : ph \in Phones \cup {""}}

AllIdle == \A p \in Procs : procs[p].pc = "idle"

LowestIdle(p) ==
    /\ procs[p].pc = "idle"
    /\ \A q \in Procs : q < p => procs[q].pc # "idle"

MappingTable(kind) == IF kind = "sheet" THEN google_sheet_mappings ELSE google_doc_mappings

MappingRows(kind, phone) == {m \in MappingTable(kind) : m.phone_number = phone}

\* sheetMapping.sheet_id / docMapping.doc_id
SourceId(kind, m) == IF kind = "sheet" THEN m.sheet_id ELSE m.doc_id

NoSync == [phone |-> "", source |-> "", fetched |-> NoFetch]

\* what an answered invocation leaves in lastSync: its partition and fetched
\* content when it succeeded, nothing when it failed
Outcome(pr) ==
    IF pr.status = 200
    THEN [phone |-> pr.phone, source |-> SourceOf(pr.kind), fetched |-> pr.fetched]
    ELSE NoSync

\* the invocation in slot p becomes pr
Becomes(p, pr) ==
    /\ procs' = [procs EXCEPT ![p] = pr]
    /\ UNCHANGED lastSync

\* NextResponse.json(..., {status})
Return(pr, status, error) == [pr EXCEPT !.pc = "done", !.status = status, !.error = error]

\* the apply steps in the order of the handler: the sheet sync deletes, updates,
\* adds; the doc sync deletes, adds, updates; both then write the metadata and
\* return the success response
\* a handler that writes the sync metadata before it adds the new chunks
PhaseOrderMetaBeforeAdd(kind) ==
    IF kind = "sheet" THEN <<"delete", "update", "meta", "add", "return">>
    ELSE <<"delete", "meta", "add", "update", "return">>

PhaseOrder(kind) ==
    IF kind = "sheet" THEN <<"delete", "update", "add", "meta", "return">>
    ELSE <<"delete", "add", "update", "meta", "return">>

PhaseIndex(kind, phase) == CHOOSE k \in 1..5 : PhaseOrder(kind)[k] = phase

\* if (toDelete.length > 0) / (toUpdate.length > 0) / (toAdd.length > 0)
PhaseHasWork(pr, phase) ==
    CASE phase = "delete" -> pr.toDelete # <<>>
      [] phase = "update" -> pr.toUpdate # <<>>
      [] phase = "add" -> pr.toAdd # <<>>
      [] OTHER -> TRUE

NextPhase(pr, after) ==
    LET ord == PhaseOrder(pr.kind)
        k == CHOOSE k \in DOMAIN ord :
                /\ k > after
                /\ PhaseHasWork(pr, ord[k])
                /\ \A j \in (after + 1)..(k - 1) : ~PhaseHasWork(pr, ord[j])
    IN  ord[k]

\* control falls through to the next step that has work; the final return
\* follows the metadata update without an await
Enter(pr, after) ==
    IF NextPhase(pr, after) = "return" THEN Return(pr, 200, "")
    ELSE [pr EXCEPT !.pc = NextPhase(pr, after), !.i = 1]

Messages(kind) ==
    IF kind = "sheet"
    THEN [noMapping |-> "No Google Sheet configured for this number",
          mappingDb |-> "Database error while fetching sheet mapping",
          missingId |-> "Invalid sheet mapping - missing sheet_id",
          denied |-> "Google Sheet access denied. Please share the sheet with the service account email.",
          notFound |-> "Google Sheet not found. Please check the sheet URL.",
          readFailed |-> "Failed to read Google Sheet",
          updateThrown |-> "Failed to update chunks",
          addThrown |-> "Failed to add new chunks",
          insertFailed |-> "Failed to save chunks"]
    ELSE [noMapping |-> "No Google Doc configured for this number",
          mappingDb |-> "Database error while fetching doc mapping",
          missingId |-> "Invalid doc mapping - missing doc_id",
          denied |-> "Google Doc access denied. Please share the doc with the service account email.",
          notFound |-> "Google Doc not found. Please check the doc URL.",
          readFailed |-> "Failed to read Google Doc",
          updateThrown |-> "Database error during update",
          addThrown |-> "Database error during addition",
          insertFailed |-> "Failed to insert new chunk"]

\* route.ts 10-28, part_002 11-29: the request body
StartSync(p, kind, body) ==
    /\ LowestIdle(p)
    /\ now < MaxClock
    /\ now' = now + 1
    /\ LET pr == [IdleProc EXCEPT !.kind = kind, !.phone = body.phone_number,
                                  !.mappingBefore = MappingRows(kind, body.phone_number)]
       IN  Becomes(p,
             IF ~body.valid THEN Return(pr, 400, "Invalid JSON in request body")
             ELSE IF body.phone_number = "" THEN Return(pr, 400, "phone_number is required")
             ELSE [pr EXCEPT !.pc = "mapping"])
    /\ UNCHANGED <<chunks, google_sheet_mappings, google_doc_mappings,
                   phone_document_mapping, retrieved, plan, webhookVars>>

\* route.ts 30-63, part_002 31-64: the tenant's mapping row
GetMapping(p, dbError) ==
    LET pr == procs[p]
        rows == MappingRows(pr.kind, pr.phone)
        msg == Messages(pr.kind)
    IN  /\ pr.pc = "mapping"
        /\ Becomes(p,
             IF dbError THEN Return(pr, 500, msg.mappingDb)
             ELSE IF rows = {} THEN Return(pr, 404, msg.noMapping)
             ELSE IF \E m \in rows : SourceId(pr.kind, m) = "" THEN Return(pr, 400, msg.missingId)
             ELSE [pr EXCEPT !.pc = "fetch"])
        /\ UNCHANGED <<chunks, google_sheet_mappings, google_doc_mappings,
                       phone_document_mapping, now, retrieved, plan, webhookVars>>

\* route.ts 71-94, part_002 72-95: the Google API throws
ReadSourceFails(p, code) ==
    LET pr == procs[p]
        msg == Messages(pr.kind)
    IN  /\ pr.pc = "fetch"
        /\ Becomes(p,
             IF code = 403 THEN Return(pr, 403, msg.denied)
             ELSE IF code = 404 THEN Return(pr, 404, msg.notFound)
             ELSE Return(pr, 500, msg.readFailed))
        /\ UNCHANGED <<chunks, google_sheet_mappings, google_doc_mappings,
                       phone_document_mapping, now, retrieved, plan, webhookVars>>

\* what the read leaves in the invocation: an early success, or the row data
AfterRead(pr, early, rowData) ==
    LET read == [pr EXCEPT !.fetched = [early |-> early, rowData |-> rowData]]
    IN  IF early THEN Return(read, 200, "") ELSE [read EXCEPT !.pc = "load"]

\* route.ts 67-135: readGoogleSheet, the emptiness test, the row strings and hashes
ReadSheet(p, sheetData) ==
    LET pr == procs[p]
    IN  /\ pr.pc = "fetch"
        /\ pr.kind = "sheet"
        /\ Becomes(p,
             IF Len(sheetData) <= 1 THEN AfterRead(pr, TRUE, <<>>)
             ELSE AfterRead(pr, FALSE, SheetRowData(sheetData)))
        /\ UNCHANGED <<chunks, google_sheet_mappings, google_doc_mappings,
                       phone_document_mapping, now, retrieved, plan, webhookVars>>

\* part_002 68-131 with googleDoc.ts 9-30: readGoogleDoc (trimmed text), the
\* emptiness test, the chunks and hashes
ReadDoc(p, rawText) ==
    LET pr == procs[p]
        docText == Trim(rawText)
    IN  /\ pr.pc = "fetch"
        /\ pr.kind = "doc"
        /\ Becomes(p,
             IF docText = <<>> THEN AfterRead(pr, TRUE, <<>>)
             ELSE AfterRead(pr, FALSE, DocChunkData(docText)))
        /\ UNCHANGED <<chunks, google_sheet_mappings, google_doc_mappings,
                       phone_document_mapping, now, retrieved, plan, webhookVars>>

\* route.ts 137-178, part_002 133-174: the stored chunks of the partition and the plan
LoadExisting(p, dbError) ==
    LET pr == procs[p]
        existing == SelectChunks(pr.phone, SourceOf(pr.kind))
        rowData == pr.fetched.rowData
        planned == [pr EXCEPT !.existingChunks = existing,
                              !.toAdd = ToAdd(rowData, existing),
                              !.toDelete = ToDelete(rowData, existing),
                              !.toUpdate = ToUpdate(rowData, existing)]
    IN  /\ pr.pc = "load"
        /\ Becomes(p,
             IF dbError THEN Return(pr, 500, "Failed to fetch existing chunks")
             ELSE Enter(planned, 0))
        /\ UNCHANGED <<chunks, google_sheet_mappings, google_doc_mappings,
                       phone_document_mapping, now, retrieved, plan, webhookVars>>

\* route.ts 180-206, part_002 176-202: one delete of all ids of toDelete
DeleteOld(p, dbError) ==
    LET pr == procs[p]
        deleteIds == {pr.toDelete[i].id : i \in DOMAIN pr.toDelete}
    IN  /\ pr.pc = "delete"
        /\ IF dbError
           THEN /\ Becomes(p, Return(pr, 500, "Failed to delete old chunks"))
                /\ UNCHANGED chunks
           ELSE /\ chunks' = DeleteChunks(chunks, deleteIds)
                /\ Becomes(p, Enter([pr EXCEPT !.deleted = Len(pr.toDelete)],
                                    PhaseIndex(pr.kind, "delete")))
        /\ UNCHANGED <<google_sheet_mappings, google_doc_mappings,
                       phone_document_mapping, now, retrieved, plan, webhookVars>>

Outcomes == {"ok", "embed_fail", "db_fail"}

\* route.ts 208-241, part_002 241-277: one chunk of toUpdate is embedded again
\* and its stored row overwritten; the sheet sync counts after the loop, the
\* doc sync counts each chunk
UpdateChanged(p, outcome) ==
    LET pr == procs[p]
        row == pr.toUpdate[pr.i]
        existing == ExistingHashToChunk(pr.existingChunks, row.hash)
        last == pr.i = Len(pr.toUpdate)
        counted == IF pr.kind = "doc" THEN [pr EXCEPT !.updated = pr.updated + 1]
                   ELSE IF last THEN [pr EXCEPT !.updated = Len(pr.toUpdate)]
                   ELSE pr
    IN  /\ pr.pc = "update"
        /\ CASE outcome = "embed_fail" ->
                  /\ Becomes(p, [Return(pr, 500, Messages(pr.kind).updateThrown)
                                    EXCEPT !.failedAt = pr.i])
                  /\ UNCHANGED chunks
             [] outcome = "db_fail" ->
                  /\ Becomes(p, Return(pr, 500, "Failed to update chunk"))
                  /\ UNCHANGED chunks
             [] OTHER ->
                  /\ chunks' = UpdateChunk(chunks, existing.id, row.content)
                  /\ Becomes(p, IF last THEN Enter(counted, PhaseIndex(pr.kind, "update"))
                                ELSE [counted EXCEPT !.i = pr.i + 1])
        /\ UNCHANGED <<google_sheet_mappings, google_doc_mappings,
                       phone_document_mapping, now, retrieved, plan, webhookVars>>

\* a sheet sync that embeds every batch first and inserts all rows after the last
AddBatchBuffered(p, outcome) ==
    LET pr == procs[p]
        last == pr.i + BATCH_SIZE > Len(pr.toAdd)
    IN  /\ pr.pc = "add"
        /\ pr.kind = "sheet"
        /\ CASE outcome = "embed_fail" ->
                  /\ \E k \in pr.i..Min(pr.i + BATCH_SIZE - 1, Len(pr.toAdd)) :
                        Becomes(p, [Return(pr, 500, Messages(pr.kind).addThrown)
                                      EXCEPT !.failedAt = k])
                  /\ UNCHANGED chunks
             [] outcome = "db_fail" ->
                  /\ Becomes(p, Return(pr, 500, Messages(pr.kind).insertFailed))
                  /\ UNCHANGED chunks
             [] OTHER ->
                  /\ chunks' = IF last THEN InsertChunks(chunks, pr.phone, GOOGLE_SHEET, pr.toAdd)
                                ELSE chunks
                  /\ Becomes(p, IF last
                                THEN Enter([pr EXCEPT !.added = Len(pr.toAdd)],
                                           PhaseIndex(pr.kind, "add"))
                                ELSE [pr EXCEPT !.i = pr.i + BATCH_SIZE])
        /\ UNCHANGED <<google_sheet_mappings, google_doc_mappings,
                       phone_document_mapping, now, retrieved, plan, webhookVars>>

\* route.ts 243-300: one batch of toAdd: all its embeddings, then one insert
AddBatch(p, outcome) ==
    LET pr == procs[p]
        batch == SubSeq(pr.toAdd, pr.i, Min(pr.i + BATCH_SIZE - 1, Len(pr.toAdd)))
        last == pr.i + BATCH_SIZE > Len(pr.toAdd)
    IN  /\ pr.pc = "add"
        /\ pr.kind = "sheet"
        /\ CASE outcome = "embed_fail" ->
                  \* Promise.all rejects when the embedding of any row of the batch fails
                  /\ \E k \in pr.i..Min(pr.i + BATCH_SIZE - 1, Len(pr.toAdd)) :
                        Becomes(p, [Return(pr, 500, Messages(pr.kind).addThrown)
                                      EXCEPT !.failedAt = k])
                  /\ UNCHANGED chunks
             [] outcome = "db_fail" ->
                  /\ Becomes(p, Return(pr, 500, Messages(pr.kind).insertFailed))
                  /\ UNCHANGED chunks
             [] OTHER ->
                  /\ chunks' = InsertChunks(chunks, pr.phone, GOOGLE_SHEET, batch)
                  /\ Becomes(p, IF last
                                THEN Enter([pr EXCEPT !.added = Len(pr.toAdd)],
                                           PhaseIndex(pr.kind, "add"))
                                ELSE [pr EXCEPT !.i = pr.i + BATCH_SIZE])
        /\ UNCHANGED <<google_sheet_mappings, google_doc_mappings,
                       phone_document_mapping, now, retrieved, plan, webhookVars>>

\* part_002 204-239: one chunk of toAdd: its embedding, then its insert
AddChunk(p, outcome) ==
    LET pr == procs[p]
        chunk == pr.toAdd[pr.i]
        last == pr.i = Len(pr.toAdd)
        counted == [pr EXCEPT !.added = pr.added + 1]
    IN  /\ pr.pc = "add"
        /\ pr.kind = "doc"
        /\ CASE outcome = "embed_fail" ->
                  /\ Becomes(p, [Return(pr, 500, Messages(pr.kind).addThrown)
                                    EXCEPT !.failedAt = pr.i])
                  /\ UNCHANGED chunks
             [] outcome = "db_fail" ->
                  /\ Becomes(p, Return(pr, 500, Messages(pr.kind).insertFailed))
                  /\ UNCHANGED chunks
             [] OTHER ->
                  /\ chunks' = InsertChunks(chunks, pr.phone, GOOGLE_DOC, <<chunk>>)
                  /\ Becomes(p, IF last THEN Enter(counted, PhaseIndex(pr.kind, "add"))
                                ELSE [counted EXCEPT !.i = pr.i + 1])
        /\ UNCHANGED <<google_sheet_mappings, google_doc_mappings,
                       phone_document_mapping, now, retrieved, plan, webhookVars>>

\* .from(mappings).update({last_synced_at, last_row_count}).eq("phone_number", phone)
WriteSyncMeta(table, kind, phone, at, count) ==
    {IF m.phone_number # phone THEN m
     ELSE IF kind = "sheet"
          THEN [m EXCEPT !.last_synced_at = at, !.last_row_count = count]
          ELSE [m EXCEPT !.last_synced_at = at, !.last_chunk_count = count] : m \in table}

\* route.ts 302-327, part_002 279-303: the metadata update, whose failure is
\* logged and not returned, then the success response
UpdateMeta(p, dbError) ==
    LET pr == procs[p]
        count == Len(pr.fetched.rowData)
    IN  /\ pr.pc = "meta"
        /\ IF dbError
           THEN UNCHANGED <<google_sheet_mappings, google_doc_mappings>>
           ELSE IF pr.kind = "sheet"
                THEN /\ google_sheet_mappings' =
                          WriteSyncMeta(google_sheet_mappings, "sheet", pr.phone, now, count)
                     /\ UNCHANGED google_doc_mappings
                ELSE /\ google_doc_mappings' =
                          WriteSyncMeta(google_doc_mappings, "doc", pr.phone, now, count)
                     /\ UNCHANGED google_sheet_mappings
        /\ Becomes(p, Enter([pr EXCEPT !.wroteMeta = ~dbError], PhaseIndex(pr.kind, "meta")))
        /\ UNCHANGED <<chunks, phone_document_mapping, now, retrieved, plan, webhookVars>>

\* the response has been sent: the invocation is over, and lastSync remembers it
Respond(p) ==
    /\ procs[p].pc = "done"
    /\ procs' = [procs EXCEPT ![p] = IdleProc]
    /\ lastSync' = Outcome(procs[p])
    /\ UNCHANGED <<chunks, google_sheet_mappings, google_doc_mappings,
                   phone_document_mapping, now, retrieved, plan, webhookVars>>

(***************************************************************************)
(* save-google-sheet/route.ts: the two save-mapping handlers               *)
(***************************************************************************)
\* a URL as its segments between slashes
Urls == {<<"https:", "", "docs.google.com", "spreadsheets", "d", "id1", "edit">>, <<"id1">>}

RECURSIVE JoinUrl(_)
JoinUrl(url) ==
    IF url = <<>> THEN ""
    ELSE IF Len(url) = 1 THEN url[1]
    ELSE url[1] \o "/" \o JoinUrl(Tail(url))

\* url.match(/\/d\/([a-zA-Z0-9-_]+)/): the segment after the first "/d/",
\* else the URL itself
ExtractId(url) ==
    LET at == {k \in 2..(Len(url) - 1) : url[k] = "d" /\ url[k + 1] # ""}
    IN  IF at = {} THEN JoinUrl(url)
        ELSE url[(CHOOSE k \in at : \A j \in at : k <= j) + 1]

\* route.ts 4-80: upsert on phone_number, which resets the sync metadata
SaveGoogleSheet(phone, url, dbError) ==
    /\ google_sheet_mappings' =
         IF phone = "" \/ url = <<>> \/ dbError THEN google_sheet_mappings
         ELSE {m \in google_sheet_mappings : m.phone_number # phone}
              \cup {[phone_number |-> phone, sheet_id |-> ExtractId(url),
                     last_synced_at |-> NULL, last_row_count |-> 0]}
    /\ UNCHANGED <<chunks, google_doc_mappings, phone_document_mapping, now, procs,
                   lastSync, retrieved, plan, webhookVars>>

\* route.ts 85-161: the same for a document
SaveGoogleDoc(phone, url, dbError) ==
    /\ google_doc_mappings' =
         IF phone = "" \/ url = <<>> \/ dbError THEN google_doc_mappings
         ELSE {m \in google_doc_mappings : m.phone_number # phone}
              \cup {[phone_number |-> phone, doc_id |-> ExtractId(url),
                     last_synced_at |-> NULL, last_chunk_count |-> 0]}
    /\ UNCHANGED <<chunks, google_sheet_mappings, phone_document_mapping, now, procs,
                   lastSync, retrieved, plan, webhookVars>>

(***************************************************************************)
(* google-sheet-status/route.ts: the status of a phone number's sheet      *)
(***************************************************************************)
\* route.ts 18-60: the mapping row and the count of the phone number's
\* google_sheet chunks, and the status derived from the two
GoogleSheetStatus(phone) ==
    LET mapping == MappingRows("sheet", phone)
        chunkCount == Cardinality({c \in chunks : c.phone_number = phone
                                                    /\ c.source = GOOGLE_SHEET})
        isConnected == mapping # {}
        hasData == chunkCount > 0
        row == CHOOSE r \in mapping : TRUE
    IN  [connected |-> isConnected,
         hasData |-> hasData,
         last_synced_at |-> IF isConnected THEN row.last_synced_at ELSE NULL,
         total_chunks |-> chunkCount,
         last_row_count |-> IF isConnected THEN row.last_row_count ELSE 0,
         sync_status |-> IF isConnected
                         THEN (IF hasData THEN "synced" ELSE "pending_sync")
                         ELSE "not_connected"]

(***************************************************************************)
(* Retrieval: lib/retrieval.ts over match_documents_by_phone               *)
(***************************************************************************)
\* SQL NULL in a text column or a text argument
SqlNull == "null"

\* c.embedding <=> query_embedding, on the one coordinate the model keeps
Distance(embedding, queryEmbedding) ==
    IF embedding >= queryEmbedding THEN embedding - queryEmbedding
    ELSE queryEmbedding - embedding

\* essential-migration.sql 44-71: the rows the WHERE clause keeps
MatchCandidates(target_phone) ==
    {c \in chunks : target_phone = SqlNull \/ c.phone_number = target_phone}

\* essential-migration.sql 44-71: match_count of the candidates in order of
\* distance; rows at equal distance come in any order
MatchDocumentsByPhone(query_embedding, match_count, target_phone) ==
    LET rows == MatchCandidates(target_phone)
        n == Min(match_count, Cardinality(rows))
        dist(c) == Distance(c.embedding, query_embedding)
    IN  {[i \in 1..n |->
            [id |-> s[i].id, content |-> s[i].content,
             similarity |-> 1 - dist(s[i]),
             source |-> s[i].source, source_row_hash |-> s[i].row_hash]] :
         s \in {t \in [1..n -> rows] :
                  /\ \A i, j \in 1..n : i < j => t[i] # t[j] /\ dist(t[i]) <= dist(t[j])
                  /\ \A c \in rows \ Range(t) : \A i \in 1..n : dist(t[i]) <= dist(c)}}

RECURSIVE SortBySimilarity(_)
\* Array.prototype.sort((a, b) => b.similarity - a.similarity): descending and stable
SortBySimilarity(s) ==
    IF s = <<>> THEN <<>>
    ELSE LET rest == SortBySimilarity(Tail(s))
             above == SelectSeq(rest, LAMBDA x : x.similarity > Head(s).similarity)
             below == SelectSeq(rest, LAMBDA x : x.similarity <= Head(s).similarity)
         IN  above \o <<Head(s)>> \o below

\* Array.prototype.slice(0, limit)
Slice(s, limit) == SubSeq(s, 1, Min(limit, Len(s)))

RECURSIVE Flatten(_)
Flatten(ss) == IF ss = <<>> THEN <<>> ELSE Head(ss) \o Flatten(Tail(ss))

\* retrieval.ts 3-23: the fileId is not used, target_phone is null; an rpc
\* error is thrown
RetrieveRelevantChunks(queryEmbedding, fileId, limit) ==
    MatchDocumentsByPhone(queryEmbedding, limit, SqlNull)

\* retrieval.ts 28-54: one search per file id, merged, sorted, cut to limit
RetrieveRelevantChunksFromFiles(queryEmbedding, fileIds, limit) ==
    IF Len(fileIds) = 0 THEN {<<>>}
    ELSE IF Len(fileIds) = 1 THEN RetrieveRelevantChunks(queryEmbedding, fileIds[1], limit)
    ELSE {Slice(SortBySimilarity(Flatten(perFile)), limit) :
            perFile \in [DOMAIN fileIds ->
                            RetrieveRelevantChunks(queryEmbedding, SqlNull, limit)]}

\* .from("phone_document_mapping").select("file_id").eq("phone_number", phoneNumber)
RECURSIVE FileIdsOf(_)
FileIdsOf(rows) ==
    IF rows = {} THEN <<>>
    ELSE LET r == CHOOSE r \in rows : TRUE
         IN  <<r.file_id>> \o FileIdsOf(rows \ {r})

NoRetrieval == [phone |-> "", limit |-> 0, threw |-> FALSE, legacy |-> FALSE, result |-> <<>>]

\* what the caller receives: id, chunk text, similarity and path of each match
Matches(rows, path) ==
    [i \in DOMAIN rows |->
        [id |-> rows[i].id, chunk |-> rows[i].content,
         similarity |-> rows[i].similarity, source |-> path]]

\* retrieval.ts 59-115: the direct search of the tenant's chunks (an rpc error
\* gives no chunks), the legacy search when the tenant has rows in
\* phone_document_mapping (an rpc error is thrown), both merged, sorted and cut
RetrieveRelevantChunksForPhoneNumber(queryEmbedding, phoneNumber, limit, directError, legacyError) ==
    LET fileRows == {r \in phone_document_mapping : r.phone_number = phoneNumber}
        fileIds == FileIdsOf(fileRows)
    IN  /\ \E direct \in MatchDocumentsByPhone(queryEmbedding, limit, phoneNumber),
              files \in RetrieveRelevantChunksFromFiles(queryEmbedding, fileIds, limit) :
              LET phoneChunks == IF directError THEN <<>> ELSE Matches(direct, "phone")
                  fileChunks == Matches(files, "file")
              IN  retrieved' =
                    IF fileRows # {} /\ legacyError
                    THEN [NoRetrieval EXCEPT !.phone = phoneNumber, !.limit = limit,
                                             !.threw = TRUE, !.legacy = TRUE]
                    ELSE [phone |-> phoneNumber, limit |-> limit, threw |-> FALSE,
                          legacy |-> fileRows # {},
                          result |-> Slice(SortBySimilarity(phoneChunks \o fileChunks), limit)]
        /\ UNCHANGED <<chunks, google_sheet_mappings, google_doc_mappings,
                       phone_document_mapping, now, procs, lastSync, plan, webhookVars>>

\* generate-system-prompt/route.ts 9-128: a tenant without a row in
\* phone_document_mapping gets a placeholder row whose file_id is null; a
\* request without intent or phone number, a failed completion and a failed
\* insert leave the table as it is
GenerateSystemPrompt(phone_number, hasIntent, completionFails, dbError) ==
    /\ phone_document_mapping' =
         IF ~hasIntent \/ phone_number = "" \/ completionFails \/ dbError
            \/ \E r \in phone_document_mapping : r.phone_number = phone_number
         THEN phone_document_mapping
         ELSE phone_document_mapping
                 \cup {[phone_number |-> phone_number, file_id |-> SqlNull]}
    /\ UNCHANGED <<chunks, google_sheet_mappings, google_doc_mappings, now, procs,
                   lastSync, retrieved, plan, webhookVars>>

(***************************************************************************)
(* The WhatsApp webhook: webhook/whatsapp/route.ts (local Whisper variant) *)
(* and part_003 (Mistral variant with the 24-hour window)                  *)
(***************************************************************************)
\* webhook invocations that can be in flight at once
MaxDeliveries == 2

Deliveries == 1..MaxDeliveries

\* route.ts 53: const maxRetries = 2
MaxRetries == 2

\* what a speech-to-text provider returns: no text, or a transcript
Transcripts == {"", "namaste"}

NoPayload ==
    [messageId |-> "", from |-> "", to |-> "", event |-> "", text |-> "",
     receivedAt |-> 0, voice |-> FALSE, url |-> FALSE, isin24window |-> FALSE]

IdleDelivery ==
    [pc |-> "idle",
     variant |-> "",             \* "whisper": route.ts 250-377; "window": part_003 85-405
     payload |-> NoPayload,
     openai |-> FALSE,           \* process.env.OPENAI_API_KEY is set
     groq |-> FALSE,             \* process.env.GROQ_API_KEY is set
     alreadyResponded |-> FALSE,
     messageText |-> "",         \* "" stands for undefined
     retryCount |-> 0,
     transcript |-> "",          \* what transcribeVoiceMessage returned; "" stands for null
     result |-> "",              \* generateAutoResponse: "" not returned yet, "success" or "failure"
     status |-> 0,
     downloads |-> 0,            \* history: attempts of transcribeVoiceMessage, one download each
     called |-> <<>>,            \* history: the providers called since the last download, with what they returned
     lastThrew |-> FALSE,        \* history: the attempt before this one ended in the catch block
     transcribed |-> FALSE,      \* history: the delivery called transcribeVoiceMessage
     generated |-> FALSE,        \* history: the delivery called generateAutoResponse
     fallback |-> FALSE,         \* history: the delivery called sendFallbackForVoice
     sends |-> <<>>]             \* history: the kinds of message the delivery had accepted for sending

NoWebhook ==
    /\ whatsapp_messages = {}
    /\ deliveries = [d \in Deliveries |-> IdleDelivery]
    /\ outbox = <<>>

SetDelivery(d, dl) == deliveries' = [deliveries EXCEPT ![d] = dl]

\* transcribeVoiceMessage returns text ("" for null) to the handler
TranscribeReturn(dl, text) == [dl EXCEPT !.transcript = text, !.pc = "transcribed"]

\* a download whose catch block retries once more than maxRetries allows
DownloadOneMore(d, ok) ==
    LET dl == deliveries[d]
        tried == [dl EXCEPT !.downloads = dl.downloads + 1, !.called = <<>>,
                            !.lastThrew = FALSE]
    IN  /\ dl.pc = "download"
        /\ SetDelivery(d,
             IF ok THEN [tried EXCEPT !.pc = IF dl.variant = "whisper" THEN "local" ELSE "mistral"]
             ELSE IF dl.variant = "whisper" /\ dl.retryCount <= MaxRetries
                  THEN [tried EXCEPT !.retryCount = dl.retryCount + 1, !.lastThrew = TRUE]
                  ELSE TranscribeReturn(tried, ""))
        /\ UNCHANGED <<syncVars, whatsapp_messages, outbox>>

\* route.ts 56-66 and 100-112: the download; a failed download throws, and the
\* catch block calls transcribeVoiceMessage again while retryCount < maxRetries.
\* part_003 54-61 and 79-82: the catch block returns null
Download(d, ok) ==
    LET dl == deliveries[d]
        tried == [dl EXCEPT !.downloads = dl.downloads + 1, !.called = <<>>,
                            !.lastThrew = FALSE]
    IN  /\ dl.pc = "download"
        /\ SetDelivery(d,
             IF ok THEN [tried EXCEPT !.pc = IF dl.variant = "whisper" THEN "local" ELSE "mistral"]
             ELSE IF dl.variant = "whisper" /\ dl.retryCount < MaxRetries
                  THEN [tried EXCEPT !.retryCount = dl.retryCount + 1, !.lastThrew = TRUE]
                  ELSE TranscribeReturn(tried, ""))
        /\ UNCHANGED <<syncVars, whatsapp_messages, outbox>>

\* the provider after `provider` in the chain of route.ts 68-95, given which
\* clients are configured; "" when the chain is at its end
NextProvider(dl, provider) ==
    CASE provider = "local" -> IF dl.openai THEN "openai" ELSE IF dl.groq THEN "groq" ELSE ""
      [] provider = "openai" -> IF dl.groq THEN "groq" ELSE ""
      [] OTHER -> ""

\* a chain that goes on to the next provider also after a transcript came back
CallProviderKeepsGoing(d, provider, text) ==
    LET dl == deliveries[d]
        called == [dl EXCEPT !.called = Append(dl.called, [provider |-> provider, text |-> text])]
        next == IF provider = "local" THEN (IF dl.openai THEN "openai" ELSE IF dl.groq THEN "groq" ELSE "")
                ELSE IF provider = "openai" /\ dl.groq THEN "groq" ELSE ""
    IN  /\ dl.pc = provider
        /\ SetDelivery(d,
             IF next # "" THEN [called EXCEPT !.pc = next, !.transcript = text]
             ELSE TranscribeReturn(called, IF text # "" THEN text ELSE dl.transcript))
        /\ UNCHANGED <<syncVars, whatsapp_messages, outbox>>

\* one provider of the chain is called and returns text or null (the three
\* functions catch their own errors and return null, route.ts 179-181, 226-229,
\* 244-247)
CallProvider(d, provider, text) ==
    LET dl == deliveries[d]
        called == [dl EXCEPT !.called = Append(dl.called, [provider |-> provider, text |-> text])]
        next == NextProvider(dl, provider)
    IN  /\ dl.pc = provider
        /\ SetDelivery(d,
             IF text # "" THEN TranscribeReturn(called, text)
             ELSE IF next # "" THEN [called EXCEPT !.pc = next]
             ELSE TranscribeReturn(called, ""))
        /\ UNCHANGED <<syncVars, whatsapp_messages, outbox>>

\* route.ts 116-191
LocalWhisper(d, text) == CallProvider(d, "local", text)

\* route.ts 209-231
OpenAIWhisper(d, text) == CallProvider(d, "openai", text)

\* route.ts 234-248: the Groq step is a placeholder that returns null
GroqFallback(d) == CallProvider(d, "groq", "")

\* part_003 63-78: transcribeAudio of the Mistral route; a throw is caught and
\* becomes null
MistralSTT(d, text) ==
    LET dl == deliveries[d]
    IN  /\ dl.pc = "mistral"
        /\ SetDelivery(d, TranscribeReturn(
               [dl EXCEPT !.called = Append(dl.called, [provider |-> "mistral", text |-> text])],
               text))
        /\ UNCHANGED <<syncVars, whatsapp_messages, outbox>>

TranscribeStep(d) ==
    \/ \E ok \in BOOLEAN : Download(d, ok)
    \/ \E text \in Transcripts : LocalWhisper(d, text)
    \/ \E text \in Transcripts : OpenAIWhisper(d, text)
    \/ GroqFallback(d)

\* the row of message_id, if the table has one
MessageRows(id) == {r \in whatsapp_messages : r.message_id = id}

\* .update({auto_respond_sent: flag, ...}).eq("message_id", id)
MarkResponded(table, id, flag) ==
    {IF r.message_id = id THEN [r EXCEPT !.auto_respond_sent = flag] ELSE r : r \in table}

\* .update({content_text: text}).eq("message_id", id)
SetContentText(table, id, text) ==
    {IF r.message_id = id THEN [r EXCEPT !.content_text = text] ELSE r : r \in table}

\* the row of an automatic reply: message_id `auto_${messageId}_${Date.now()}`,
\* from the business number to the sender; seq keeps the rows of one message apart
ReplyRow(table, payload, text, flag) ==
    [message_id |-> "auto_" \o payload.messageId, seq |-> Cardinality(table),
     from_number |-> payload.to, to_number |-> payload.from,
     content_text |-> text, event_type |-> "MtMessage", received_at |-> now,
     auto_respond_sent |-> flag]

\* phone_document_mapping rows of a business number
BusinessRows(to) == {b \in phone_document_mapping : b.phone_number = to}

\* auth_token and origin are both set
HasCredentials(to) == \E b \in BusinessRows(to) : b.auth_token /\ b.origin

\* WHATSAPP_DEFAULT_TEMPLATE_ID || mapping.outside_24h_template_id || mapping.template_id
HasTemplate(to) == \E b \in BusinessRows(to) : b.template_id

\* the handler returns
Answer(dl, status) == [dl EXCEPT !.pc = "done", !.status = status]

\* a gate that does not look at isin24window
GateIgnoringWindow(dl) ==
    IF dl.messageText # "" /\ dl.payload.event = "MoMessage" /\ ~dl.alreadyResponded
    THEN [dl EXCEPT !.pc = "gen"]
    ELSE [dl EXCEPT !.pc = "done", !.status = 200]

\* route.ts 331-332, part_003 281-284: the test before the auto-response, and
\* in the window variant the branch on isin24window
Gate(dl) ==
    IF dl.messageText # "" /\ dl.payload.event = "MoMessage" /\ ~dl.alreadyResponded
    THEN IF dl.variant = "whisper" \/ dl.payload.isin24window
         THEN [dl EXCEPT !.pc = "gen"]
         ELSE [dl EXCEPT !.pc = "template"]
    ELSE Answer(dl, 200)

\* route.ts 250-262: the payload is read and validated
Receive(d, payload) ==
    LET dl == deliveries[d]
    IN  /\ dl.pc = "idle"
        /\ SetDelivery(d,
             IF payload.messageId = "" \/ payload.from = "" \/ payload.to = ""
             THEN Answer([dl EXCEPT !.payload = payload], 400)
             ELSE [dl EXCEPT !.payload = payload, !.pc = "upsert"])
        /\ UNCHANGED <<syncVars, whatsapp_messages, outbox>>

\* an upsert that writes auto_respond_sent with the other columns
UpsertResetting(d, dbError) ==
    LET dl == deliveries[d]
        pl == dl.payload
        row == [message_id |-> pl.messageId, seq |-> Cardinality(whatsapp_messages),
                from_number |-> pl.from, to_number |-> pl.to,
                content_text |-> pl.text, event_type |-> pl.event,
                received_at |-> pl.receivedAt, auto_respond_sent |-> FALSE]
        read == [dl EXCEPT !.alreadyResponded = FALSE, !.messageText = pl.text]
    IN  /\ dl.pc = "upsert"
        /\ IF dbError
           THEN /\ SetDelivery(d, Answer(dl, 500))
                /\ UNCHANGED whatsapp_messages
           ELSE /\ whatsapp_messages' =
                     {r \in whatsapp_messages : r.message_id # pl.messageId} \cup {row}
                /\ SetDelivery(d,
                     IF pl.voice /\ pl.url
                     THEN [read EXCEPT !.pc = "download", !.transcribed = TRUE]
                     ELSE Gate(read))
        /\ UNCHANGED <<syncVars, outbox>>

\* route.ts 264-329: upsert on message_id of the payload's columns (a stored
\* row keeps its auto_respond_sent), then the row's auto_respond_sent is read
\* and a voice note not responded to goes to transcription
Upsert(d, dbError) ==
    LET dl == deliveries[d]
        pl == dl.payload
        old == MessageRows(pl.messageId)
        row == [message_id |-> pl.messageId,
                seq |-> IF old = {} THEN Cardinality(whatsapp_messages)
                        ELSE (CHOOSE r \in old : TRUE).seq,
                from_number |-> pl.from, to_number |-> pl.to,
                content_text |-> pl.text, event_type |-> pl.event,
                received_at |-> pl.receivedAt,
                auto_respond_sent |-> IF old = {} THEN FALSE
                                      ELSE (CHOOSE r \in old : TRUE).auto_respond_sent]
        read == [dl EXCEPT !.alreadyResponded = row.auto_respond_sent,
                           !.messageText = pl.text]
    IN  /\ dl.pc = "upsert"
        /\ IF dbError
           THEN /\ SetDelivery(d, Answer(dl, 500))
                /\ UNCHANGED whatsapp_messages
           ELSE /\ whatsapp_messages' =
                     {r \in whatsapp_messages : r.message_id # pl.messageId} \cup {row}
                /\ SetDelivery(d,
                     IF pl.voice /\ pl.url /\ ~read.alreadyResponded
                     THEN [read EXCEPT !.pc = "download", !.transcribed = TRUE]
                     ELSE Gate(read))
        /\ UNCHANGED <<syncVars, outbox>>

\* a handler that keeps the payload's text when there is no transcript
AfterTranscribeKeepsText(d) ==
    LET dl == deliveries[d]
    IN  /\ dl.pc = "transcribed"
        /\ whatsapp_messages' =
              IF dl.transcript # ""
              THEN SetContentText(whatsapp_messages, dl.payload.messageId, dl.transcript)
              ELSE whatsapp_messages
        /\ SetDelivery(d, Gate(IF dl.transcript # ""
                               THEN [dl EXCEPT !.messageText = dl.transcript] ELSE dl))
        /\ UNCHANGED <<syncVars, outbox>>

\* route.ts 316-328: a transcript becomes the message text and is stored; with
\* no transcript the message text is dropped.  part_003 254-276: the same, and
\* with no transcript sendFallbackForVoice is called first
AfterTranscribe(d) ==
    LET dl == deliveries[d]
    IN  /\ dl.pc = "transcribed"
        /\ IF dl.transcript # ""
           THEN /\ whatsapp_messages' =
                     SetContentText(whatsapp_messages, dl.payload.messageId, dl.transcript)
                /\ SetDelivery(d, Gate([dl EXCEPT !.messageText = dl.transcript]))
           ELSE /\ UNCHANGED whatsapp_messages
                /\ SetDelivery(d,
                     IF dl.variant = "whisper" THEN Gate([dl EXCEPT !.messageText = ""])
                     ELSE [dl EXCEPT !.messageText = "", !.fallback = TRUE, !.pc = "fb_mark"])
        /\ UNCHANGED <<syncVars, outbox>>

\* what the WhatsApp API has accepted: the recipient, the kind of message
\* ("llm", "text", "notice" or "template") and the inbound message it answers
Sent(to, kind, re) == [to |-> to, kind |-> kind, re |-> re]

\* autoResponder.ts 24-188: the mapped documents, the credentials, the
\* embedding, retrieval, history and the completion; every failure returns
\* {success: false}
GenPrepare(d, outcome) ==
    LET dl == deliveries[d]
        called == [dl EXCEPT !.generated = TRUE]
    IN  /\ dl.pc = "gen"
        /\ SetDelivery(d,
             IF BusinessRows(dl.payload.to) = {} \/ ~HasCredentials(dl.payload.to)
                  \/ outcome # "ok"
             THEN [called EXCEPT !.result = "failure", !.pc = "after_gen"]
             ELSE [called EXCEPT !.pc = "send"])
        /\ UNCHANGED <<syncVars, whatsapp_messages, outbox>>

\* autoResponder.ts 190-211: sendWhatsAppMessage and the test of its result
GenSend(d, accepted) ==
    LET dl == deliveries[d]
    IN  /\ dl.pc = "send"
        /\ IF accepted
           THEN /\ outbox' = Append(outbox, Sent(dl.payload.from, "llm", dl.payload.messageId))
                /\ SetDelivery(d, [dl EXCEPT !.sends = Append(dl.sends, "llm"),
                                             !.pc = "gen_store"])
           ELSE /\ UNCHANGED outbox
                /\ SetDelivery(d, [dl EXCEPT !.pc = "gen_unmark"])
        /\ UNCHANGED <<syncVars, whatsapp_messages>>

\* autoResponder.ts 196-210: after a failed send auto_respond_sent is set to false
GenUnmark(d) ==
    LET dl == deliveries[d]
    IN  /\ dl.pc = "gen_unmark"
        /\ whatsapp_messages' = MarkResponded(whatsapp_messages, dl.payload.messageId, FALSE)
        /\ SetDelivery(d, [dl EXCEPT !.result = "failure", !.pc = "after_gen"])
        /\ UNCHANGED <<syncVars, outbox>>

\* autoResponder.ts 213-235: the reply is stored as an MtMessage row
GenStore(d) ==
    LET dl == deliveries[d]
    IN  /\ dl.pc = "gen_store"
        /\ whatsapp_messages' = whatsapp_messages
              \cup {ReplyRow(whatsapp_messages, dl.payload, "reply", FALSE)}
        /\ SetDelivery(d, [dl EXCEPT !.pc = "gen_mark"])
        /\ UNCHANGED <<syncVars, outbox>>

\* autoResponder.ts 237-252: the original message is marked, success is returned
GenMark(d) ==
    LET dl == deliveries[d]
    IN  /\ dl.pc = "gen_mark"
        /\ whatsapp_messages' = MarkResponded(whatsapp_messages, dl.payload.messageId, TRUE)
        /\ SetDelivery(d, [dl EXCEPT !.result = "success", !.pc = "after_gen"])
        /\ UNCHANGED <<syncVars, outbox>>

\* route.ts 342-361: on success the handler marks the message too, then answers
AfterGen(d) ==
    LET dl == deliveries[d]
    IN  /\ dl.pc = "after_gen"
        /\ whatsapp_messages' =
             IF dl.result = "success"
             THEN MarkResponded(whatsapp_messages, dl.payload.messageId, TRUE)
             ELSE whatsapp_messages
        /\ SetDelivery(d, Answer(dl, 200))
        /\ UNCHANGED <<syncVars, outbox>>

\* the reply of part_003 outside generateAutoResponse: the text inside the
\* 24-hour window (voice fallback only), else the template when one is
\* configured with credentials, else the notice
FallbackKind(dl, inWindow) ==
    IF inWindow THEN "text"
    ELSE IF HasTemplate(dl.payload.to) /\ HasCredentials(dl.payload.to) THEN "template"
    ELSE "notice"

\* part_003 151-172: sendFallbackForVoice reads the mapping and marks the
\* original message as responded
FbMark(d) ==
    LET dl == deliveries[d]
    IN  /\ dl.pc = "fb_mark"
        /\ whatsapp_messages' = MarkResponded(whatsapp_messages, dl.payload.messageId, TRUE)
        /\ SetDelivery(d, [dl EXCEPT !.pc = "fb_send"])
        /\ UNCHANGED <<syncVars, outbox>>

\* part_003 174-177, 200-203, 225-227: the send, made only with credentials;
\* its result is not looked at
FbSend(d, accepted) ==
    LET dl == deliveries[d]
        kind == FallbackKind(dl, dl.payload.isin24window)
    IN  /\ dl.pc = "fb_send"
        /\ IF HasCredentials(dl.payload.to) /\ accepted
           THEN /\ outbox' = Append(outbox, Sent(dl.payload.from, kind, dl.payload.messageId))
                /\ SetDelivery(d, [dl EXCEPT !.sends = Append(dl.sends, kind),
                                             !.pc = "fb_store"])
           ELSE /\ UNCHANGED outbox
                /\ SetDelivery(d, [dl EXCEPT !.pc = "fb_store"])
        /\ UNCHANGED <<syncVars, whatsapp_messages>>

\* part_003 179-196, 204-221, 229-246: the reply row is inserted; back in the
\* handler the message text is dropped (275) and the handler answers
FbStore(d) ==
    LET dl == deliveries[d]
    IN  /\ dl.pc = "fb_store"
        /\ whatsapp_messages' = whatsapp_messages
              \cup {ReplyRow(whatsapp_messages, dl.payload,
                             FallbackKind(dl, dl.payload.isin24window), TRUE)}
        /\ SetDelivery(d, Gate(dl))
        /\ UNCHANGED <<syncVars, outbox>>

\* part_003 302-316 and 347-351: outside the 24-hour window the template is
\* sent when a template and credentials are configured, else the notice when
\* credentials are
TplSend(d, accepted) ==
    LET dl == deliveries[d]
        kind == FallbackKind(dl, FALSE)
    IN  /\ dl.pc = "template"
        /\ IF HasCredentials(dl.payload.to) /\ accepted
           THEN /\ outbox' = Append(outbox, Sent(dl.payload.from, kind, dl.payload.messageId))
                /\ SetDelivery(d, [dl EXCEPT !.sends = Append(dl.sends, kind),
                                             !.pc = "tpl_store"])
           ELSE /\ UNCHANGED outbox
                /\ SetDelivery(d, [dl EXCEPT !.pc = "tpl_store"])
        /\ UNCHANGED <<syncVars, whatsapp_messages>>

\* part_003 318-335 and 353-370: the reply row is inserted
TplStore(d) ==
    LET dl == deliveries[d]
    IN  /\ dl.pc = "tpl_store"
        /\ whatsapp_messages' = whatsapp_messages
              \cup {ReplyRow(whatsapp_messages, dl.payload, FallbackKind(dl, FALSE), TRUE)}
        /\ SetDelivery(d, [dl EXCEPT !.pc = "tpl_mark"])
        /\ UNCHANGED <<syncVars, outbox>>

\* part_003 337-344 and 372-378: the original message is marked as responded
TplMark(d) ==
    LET dl == deliveries[d]
    IN  /\ dl.pc = "tpl_mark"
        /\ whatsapp_messages' = MarkResponded(whatsapp_messages, dl.payload.messageId, TRUE)
        /\ SetDelivery(d, Answer(dl, 200))
        /\ UNCHANGED <<syncVars, outbox>>

\* the steps of a delivery after its payload was read
DeliveryStep(d) ==
    \/ \E dbError \in BOOLEAN : Upsert(d, dbError)
    \/ \E ok \in BOOLEAN : Download(d, ok)
    \/ \E text \in Transcripts : LocalWhisper(d, text)
    \/ \E text \in Transcripts : OpenAIWhisper(d, text)
    \/ \E text \in Transcripts : MistralSTT(d, text)
    \/ AfterTranscribe(d)
    \/ \E outcome \in {"ok", "fails"} : GenPrepare(d, outcome)
    \/ \E accepted \in BOOLEAN : GenSend(d, accepted)
    \/ GenUnmark(d)
    \/ GenStore(d)
    \/ GenMark(d)
    \/ AfterGen(d)
    \/ FbMark(d)
    \/ \E accepted \in BOOLEAN : FbSend(d, accepted)
    \/ FbStore(d)
    \/ \E accepted \in BOOLEAN : TplSend(d, accepted)
    \/ TplStore(d)
    \/ TplMark(d)

(***************************************************************************)
(* The program with its requests handled one at a time                     *)
(***************************************************************************)
NoPlan == [rowData |-> <<>>, existingChunks |-> <<>>, toAdd |-> <<>>,
           toDelete |-> <<>>, toUpdate |-> <<>>, done |-> FALSE]

Init ==
    /\ NoWebhook
    /\ chunks = {}
    /\ google_sheet_mappings = {}
    /\ google_doc_mappings = {}
    /\ phone_document_mapping = {}
    /\ now = 0
    /\ procs = [p \in Procs |-> IdleProc]
    /\ lastSync = NoSync
    /\ retrieved = NoRetrieval
    /\ plan = NoPlan

\* The steps of a sync invocation.  UpdateChanged is no step here: with
\* stored rows that all come from syncs, no invocation ever reaches the update
\* phase (NoUpdatePhase below), so the step could not be taken.
SyncStep(p) ==
    \/ \E dbError \in BOOLEAN : GetMapping(p, dbError)
    \/ \E code \in {403, 404, 500} : ReadSourceFails(p, code)
    \/ \E sheetData \in SheetValues : ReadSheet(p, sheetData)
    \/ \E rawText \in DocTexts : ReadDoc(p, rawText)
    \/ \E dbError \in BOOLEAN : LoadExisting(p, dbError)
    \/ \E dbError \in BOOLEAN : DeleteOld(p, dbError)
    \/ \E outcome \in Outcomes : AddBatch(p, outcome)
    \/ \E outcome \in Outcomes : AddChunk(p, outcome)
    \/ \E dbError \in BOOLEAN : UpdateMeta(p, dbError)
    \/ Respond(p)

Next ==
    \/ \E p \in Procs, kind \in {"sheet", "doc"}, body \in Bodies :
          AllIdle /\ StartSync(p, kind, body)
    \/ \E p \in Procs : SyncStep(p)
    \/ \E phone \in Phones \cup {""}, url \in Urls \cup {<<>>}, dbError \in BOOLEAN :
          AllIdle /\ SaveGoogleSheet(phone, url, dbError)
    \/ \E phone \in DocPhones \cup {""}, url \in Urls \cup {<<>>}, dbError \in BOOLEAN :
          AllIdle /\ SaveGoogleDoc(phone, url, dbError)

Spec == Init /\ [][Next]_vars

(***************************************************************************)
(* One sync of a first-time tenant over sheets long enough for two batches *)
(***************************************************************************)
\* rows of a fetched sheet, header included
MaxLongSheetRows == 4

RowD == << <<"d">> >>
LongSheetValues == UNION {[1..n -> SheetRows \cup {RowD}] : n \in 0..MaxLongSheetRows}

\* tenant p1 has saved a sheet and a document and has not synced yet
InitBatch ==
    /\ NoWebhook
    /\ chunks = {}
    /\ google_sheet_mappings = {[phone_number |-> "p1", sheet_id |-> "id1",
                                 last_synced_at |-> NULL, last_row_count |-> 0]}
    /\ google_doc_mappings = {[phone_number |-> "p1", doc_id |-> "id1",
                               last_synced_at |-> NULL, last_chunk_count |-> 0]}
    /\ phone_document_mapping = {}
    /\ now = MaxClock - 1
    /\ procs = [p \in Procs |-> IdleProc]
    /\ lastSync = NoSync
    /\ retrieved = NoRetrieval
    /\ plan = NoPlan

NextBatch ==
    \/ \E p \in Procs, kind \in {"sheet", "doc"}, body \in Bodies :
          AllIdle /\ StartSync(p, kind, body)
    \/ \E p \in Procs, dbError \in BOOLEAN : GetMapping(p, dbError)
    \/ \E p \in Procs, sheetData \in LongSheetValues : ReadSheet(p, sheetData)
    \/ \E p \in Procs, rawText \in DocTexts : ReadDoc(p, rawText)
    \/ \E p \in Procs, dbError \in BOOLEAN : LoadExisting(p, dbError)
    \/ \E p \in Procs, outcome \in Outcomes : AddBatch(p, outcome)
    \/ \E p \in Procs, outcome \in Outcomes : AddChunk(p, outcome)
    \/ \E p \in Procs, dbError \in BOOLEAN : UpdateMeta(p, dbError)
    \/ \E p \in Procs : Respond(p)

SpecBatch == InitBatch /\ [][NextBatch]_vars

(***************************************************************************)
(* The reconciler alone, over any current and existing chunk collections   *)
(***************************************************************************)
\* chunks per collection
MaxPlanLen == 3

PlanContents == {"A", "B", "C"}

\* current chunks: {hash, content} as the handlers build them
PlanRows == {[hash |-> hashRow(c), content |-> c] : c \in PlanContents}

\* stored chunks: the rows a sync stores, and one row whose content differs from
\* the content its row_hash was computed from
PlanStored ==
    {[row_hash |-> hashRow(c), content |-> c] : c \in PlanContents}
        \cup {[row_hash |-> hashRow("A"), content |-> "A edited"]}

SeqsUpTo(S, n) == UNION {[1..k -> S] : k \in 0..n}

\* the select's result: the stored rows with their ids
WithIds(stored) ==
    [i \in DOMAIN stored |->
        [id |-> i, row_hash |-> stored[i].row_hash, content |-> stored[i].content]]

InitPlan ==
    /\ NoWebhook
    /\ chunks = {}
    /\ google_sheet_mappings = {}
    /\ google_doc_mappings = {}
    /\ phone_document_mapping = {}
    /\ now = 0
    /\ procs = [p \in Procs |-> IdleProc]
    /\ lastSync = NoSync
    /\ retrieved = NoRetrieval
    /\ \E rowData \in SeqsUpTo(PlanRows, MaxPlanLen),
          stored \in SeqsUpTo(PlanStored, MaxPlanLen) :
          plan = [NoPlan EXCEPT !.rowData = rowData, !.existingChunks = WithIds(stored)]

\* route.ts 163-172, part_002 159-168: the three lists of the plan
Reconcile ==
    /\ ~plan.done
    /\ plan' = [plan EXCEPT !.toAdd = ToAdd(plan.rowData, plan.existingChunks),
                            !.toDelete = ToDelete(plan.rowData, plan.existingChunks),
                            !.toUpdate = ToUpdate(plan.rowData, plan.existingChunks),
                            !.done = TRUE]
    /\ UNCHANGED <<chunks, google_sheet_mappings, google_doc_mappings,
                   phone_document_mapping, now, procs, lastSync, retrieved, webhookVars>>

NextPlan == Reconcile

SpecPlan == InitPlan /\ [][NextPlan]_vars

(***************************************************************************)
(* The apply stage alone: the phases of one plan in every order            *)
(***************************************************************************)
ApplyPhases == {"delete", "update", "add"}

\* route.ts 180-300: delete, update, add; part_002 176-277: delete, add, update
SheetApplyOrder == <<"delete", "update", "add">>

DocApplyOrder == <<"delete", "add", "update">>

RECURSIVE UpdateAll(_, _, _)
\* the update loop: each chunk of toUpdate overwrites the stored row of its hash
UpdateAll(table, toUpdate, existingChunks) ==
    IF toUpdate = <<>> THEN table
    ELSE UpdateAll(UpdateChunk(table,
                               ExistingHashToChunk(existingChunks, Head(toUpdate).hash).id,
                               Head(toUpdate).content),
                   Tail(toUpdate), existingChunks)

\* one whole phase of the invocation pr, applied to the table
PhaseResult(table, phase, pr) ==
    CASE phase = "delete" ->
            DeleteChunks(table, {pr.toDelete[i].id : i \in DOMAIN pr.toDelete})
      [] phase = "update" -> UpdateAll(table, pr.toUpdate, pr.existingChunks)
      [] phase = "add" -> InsertChunks(table, pr.phone, SourceOf(pr.kind), pr.toAdd)

RECURSIVE ApplyInOrder(_, _, _)
ApplyInOrder(table, order, pr) ==
    IF order = <<>> THEN table
    ELSE ApplyInOrder(PhaseResult(table, Head(order), pr), Tail(order), pr)

\* the stored rows of a partition, as the table holds them
StoreOf(phone, source, stored) ==
    {[id |-> i, phone_number |-> phone, content |-> stored[i].content,
      embedding |-> EmbeddingOf(stored[i].content),
      source |-> source, row_hash |-> stored[i].row_hash] : i \in DOMAIN stored}

\* an invocation that has fetched rowData, loaded the partition and reconciled
InitApply ==
    /\ NoWebhook
    /\ google_sheet_mappings = {}
    /\ google_doc_mappings = {}
    /\ phone_document_mapping = {}
    /\ now = 0
    /\ lastSync = NoSync
    /\ retrieved = NoRetrieval
    /\ \E rowData \in SeqsUpTo(PlanRows, MaxPlanLen),
          stored \in SeqsUpTo(PlanStored, MaxPlanLen), kind \in {"sheet", "doc"} :
          LET existingChunks == WithIds(stored)
          IN  /\ chunks = StoreOf("p1", SourceOf(kind), stored)
              /\ procs = [p \in Procs |->
                    IF p = 1
                    THEN [IdleProc EXCEPT !.pc = "apply", !.kind = kind, !.phone = "p1",
                                          !.fetched = [early |-> FALSE, rowData |-> rowData],
                                          !.existingChunks = existingChunks,
                                          !.toAdd = ToAdd(rowData, existingChunks),
                                          !.toDelete = ToDelete(rowData, existingChunks),
                                          !.toUpdate = ToUpdate(rowData, existingChunks)]
                    ELSE IdleProc]
              /\ plan = [before |-> chunks, applied |-> <<>>]

\* a phase not applied yet is applied whole
ApplyPhase(phase) ==
    /\ phase \notin Range(plan.applied)
    /\ chunks' = PhaseResult(chunks, phase, procs[1])
    /\ plan' = [plan EXCEPT !.applied = Append(plan.applied, phase)]
    /\ UNCHANGED <<google_sheet_mappings, google_doc_mappings, phone_document_mapping,
                   now, procs, lastSync, retrieved, webhookVars>>

NextApply == \E phase \in ApplyPhases : ApplyPhase(phase)

SpecApply == InitApply /\ [][NextApply]_vars

(***************************************************************************)
(* The sheet sync's row processing alone, over any fetched grid            *)
(***************************************************************************)
NoRows == [sheetData |-> <<>>, early |-> FALSE, rowData |-> <<>>, done |-> FALSE]

InitFlatten ==
    /\ NoWebhook
    /\ chunks = {}
    /\ google_sheet_mappings = {}
    /\ google_doc_mappings = {}
    /\ phone_document_mapping = {}
    /\ now = 0
    /\ procs = [p \in Procs |-> IdleProc]
    /\ lastSync = NoSync
    /\ retrieved = NoRetrieval
    /\ \E sheetData \in LongSheetValues : plan = [NoRows EXCEPT !.sheetData = sheetData]

\* route.ts 96-133: the emptiness test, then rowData
ProcessSheetData ==
    /\ ~plan.done
    /\ plan' = IF Len(plan.sheetData) <= 1
               THEN [plan EXCEPT !.early = TRUE, !.done = TRUE]
               ELSE [plan EXCEPT !.rowData = SheetRowData(plan.sheetData), !.done = TRUE]
    /\ UNCHANGED <<chunks, google_sheet_mappings, google_doc_mappings,
                   phone_document_mapping, now, procs, lastSync, retrieved, webhookVars>>

NextFlatten == ProcessSheetData

SpecFlatten == InitFlatten /\ [][NextFlatten]_vars

(***************************************************************************)
(* The fragmenter alone, over any text, chunk size and overlap             *)
(***************************************************************************)
\* characters of a text
MaxTextLen == 5

\* largest chunk size
MaxChunkSize == 3

TextAlphabet == {"x", "y"}

Texts == UNION {[1..n -> TextAlphabet] : n \in 0..MaxTextLen}

NoFragments == [text |-> <<>>, size |-> 1, overlap |-> 0, chunks |-> <<>>, done |-> FALSE]

\* any text, any size S and any overlap O < S
InitChunk ==
    /\ NoWebhook
    /\ chunks = {}
    /\ google_sheet_mappings = {}
    /\ google_doc_mappings = {}
    /\ phone_document_mapping = {}
    /\ now = 0
    /\ procs = [p \in Procs |-> IdleProc]
    /\ lastSync = NoSync
    /\ retrieved = NoRetrieval
    /\ \E text \in Texts, size \in 1..MaxChunkSize :
          \E overlap \in 0..(size - 1) :
              plan = [NoFragments EXCEPT !.text = text, !.size = size, !.overlap = overlap]

\* part_002 107: const chunks = chunkText(docText, size, overlap)
Fragment ==
    /\ ~plan.done
    /\ plan' = [plan EXCEPT !.chunks = chunkText(plan.text, plan.size, plan.overlap),
                            !.done = TRUE]
    /\ UNCHANGED <<chunks, google_sheet_mappings, google_doc_mappings,
                   phone_document_mapping, now, procs, lastSync, retrieved, webhookVars>>

NextChunk == Fragment

SpecChunk == InitChunk /\ [][NextChunk]_vars

(***************************************************************************)
(* Retrieval over the stores that two tenants' syncs leave                 *)
(***************************************************************************)
\* largest limit a caller passes
MaxLimit == 2

\* embeddings of the queries: at the stored contents' embeddings and between
QueryEmbeddings == {1, 3, 5}

\* the chunks after tenant p1, then tenant p2, synced a sheet into an empty store
SyncedStore(sheet1, sheet2) ==
    InsertChunks(InsertChunks({}, "p1", GOOGLE_SHEET, SheetRowData(sheet1)),
                 "p2", GOOGLE_SHEET, SheetRowData(sheet2))

InitRetrieval ==
    /\ NoWebhook
    /\ phone_document_mapping = {}
    /\ google_doc_mappings = {}
    /\ now = 2
    /\ procs = [p \in Procs |-> IdleProc]
    /\ retrieved = NoRetrieval
    /\ plan = NoPlan
    /\ \E sheet1, sheet2 \in {s \in SheetValues : Len(s) >= 2} :
          /\ chunks = SyncedStore(sheet1, sheet2)
          /\ google_sheet_mappings =
               {[phone_number |-> "p1", sheet_id |-> "id1", last_synced_at |-> 1,
                 last_row_count |-> Len(SheetRowData(sheet1))],
                [phone_number |-> "p2", sheet_id |-> "id1", last_synced_at |-> 2,
                 last_row_count |-> Len(SheetRowData(sheet2))]}
          /\ lastSync = [phone |-> "p2", source |-> GOOGLE_SHEET,
                         fetched |-> [early |-> FALSE, rowData |-> SheetRowData(sheet2)]]

NextRetrieval ==
    \/ \E phone \in Phones \cup {""}, hasIntent, completionFails, dbError \in BOOLEAN :
          GenerateSystemPrompt(phone, hasIntent, completionFails, dbError)
    \/ \E queryEmbedding \in QueryEmbeddings, phone \in Phones, limit \in 1..MaxLimit,
          directError, legacyError \in BOOLEAN :
          RetrieveRelevantChunksForPhoneNumber(queryEmbedding, phone, limit,
                                               directError, legacyError)

SpecRetrieval == InitRetrieval /\ [][NextRetrieval]_vars

(***************************************************************************)
(* Syncs of different tenants in flight at once                            *)
(***************************************************************************)
\* sheets of a header and one row
ShortSheetValues == {s \in SheetValues : Len(s) = 2}

\* both tenants have saved and synced a sheet, tenant p1 has saved a document
InitTenants ==
    /\ NoWebhook
    /\ google_doc_mappings = {[phone_number |-> "p1", doc_id |-> "id1",
                               last_synced_at |-> NULL, last_chunk_count |-> 0]}
    /\ phone_document_mapping = {}
    /\ now = MaxClock - 2
    /\ procs = [p \in Procs |-> IdleProc]
    /\ lastSync = NoSync
    /\ retrieved = NoRetrieval
    /\ plan = NoPlan
    /\ \E sheet1, sheet2 \in ShortSheetValues :
          /\ chunks = SyncedStore(sheet1, sheet2)
          /\ google_sheet_mappings =
               {[phone_number |-> "p1", sheet_id |-> "id1", last_synced_at |-> now,
                 last_row_count |-> Len(SheetRowData(sheet1))],
                [phone_number |-> "p2", sheet_id |-> "id1", last_synced_at |-> now,
                 last_row_count |-> Len(SheetRowData(sheet2))]}

\* no invocation in flight belongs to the phone number
TenantIdle(phone) == \A q \in Procs : procs[q].pc = "idle" \/ procs[q].phone # phone

NextTenants ==
    \/ \E p \in Procs, kind \in {"sheet", "doc"}, body \in Bodies :
          TenantIdle(body.phone_number) /\ StartSync(p, kind, body)
    \/ \E p \in Procs : SyncStep(p)

SpecTenants == InitTenants /\ [][NextTenants]_vars

(***************************************************************************)
(* Syncs in flight at once, of one partition too                           *)
(***************************************************************************)
\* tenant p1 has saved a sheet and a document and has not synced yet; a request
\* is taken up whenever a slot is free
InitRace ==
    /\ NoWebhook
    /\ chunks = {}
    /\ google_sheet_mappings = {[phone_number |-> "p1", sheet_id |-> "id1",
                                 last_synced_at |-> NULL, last_row_count |-> 0]}
    /\ google_doc_mappings = {[phone_number |-> "p1", doc_id |-> "id1",
                               last_synced_at |-> NULL, last_chunk_count |-> 0]}
    /\ phone_document_mapping = {}
    /\ now = MaxClock - 2
    /\ procs = [p \in Procs |-> IdleProc]
    /\ lastSync = NoSync
    /\ retrieved = NoRetrieval
    /\ plan = NoPlan

NextRace ==
    \/ \E p \in Procs, kind \in {"sheet", "doc"}, body \in Bodies : StartSync(p, kind, body)
    \/ \E p \in Procs : SyncStep(p)

SpecRace == InitRace /\ [][NextRace]_vars

(***************************************************************************)
(* transcribeVoiceMessage alone (route.ts 52-113), called in every slot    *)
(***************************************************************************)
\* the tables of the sync side, empty and idle
NoSyncState ==
    /\ chunks = {}
    /\ google_sheet_mappings = {}
    /\ google_doc_mappings = {}
    /\ phone_document_mapping = {}
    /\ now = 0
    /\ procs = [p \in Procs |-> IdleProc]
    /\ lastSync = NoSync
    /\ retrieved = NoRetrieval
    /\ plan = NoPlan

\* each slot has just called transcribeVoiceMessage(mediaUrl) with retryCount 0;
\* the OpenAI and Groq clients exist or not, as the environment says
InitTranscribe ==
    /\ NoSyncState
    /\ whatsapp_messages = {}
    /\ outbox = <<>>
    /\ \E openai \in BOOLEAN, groq \in BOOLEAN :
          deliveries = [d \in Deliveries |->
              [IdleDelivery EXCEPT !.pc = "download", !.variant = "whisper",
                                   !.openai = openai, !.groq = groq,
                                   !.transcribed = TRUE]]

NextTranscribe == \E d \in Deliveries : TranscribeStep(d)

SpecTranscribe == InitTranscribe /\ [][NextTranscribe]_vars

\* an async function that is not waiting for a response goes on
SpecTranscribeFair == SpecTranscribe /\ WF_vars(NextTranscribe)

(***************************************************************************)
(* Webhook deliveries handled one at a time, in either variant             *)
(***************************************************************************)
MessageIds == {"m1"}

\* what a payload carries: text, a voice note with its url (with or without a
\* UserResponse text), or neither
Contents == {[text |-> "hi", voice |-> FALSE], [text |-> "", voice |-> TRUE],
             [text |-> "hi", voice |-> TRUE], [text |-> "", voice |-> FALSE]}

Payloads ==
    {[messageId |-> id, from |-> "u1", to |-> "b1", event |-> ev, text |-> c.text,
      receivedAt |-> 1, voice |-> c.voice, url |-> c.voice, isin24window |-> w] :
        id \in MessageIds \cup {""}, ev \in {"MoMessage", "MtMessage"},
        c \in Contents, w \in BOOLEAN}

\* the business number b1: not mapped, or mapped with or without credentials
\* and with or without a template
BusinessConfigs ==
    {{}} \cup
    {{[phone_number |-> "b1", file_id |-> "f1", auth_token |-> a, origin |-> a,
       template_id |-> t]} : a \in BOOLEAN, t \in BOOLEAN}

\* a deployment runs one variant of the route; OpenAI is configured, Groq is not
InitWebhook ==
    /\ chunks = {}
    /\ google_sheet_mappings = {}
    /\ google_doc_mappings = {}
    /\ phone_document_mapping \in BusinessConfigs
    /\ now = 2
    /\ procs = [p \in Procs |-> IdleProc]
    /\ lastSync = NoSync
    /\ retrieved = NoRetrieval
    /\ plan = NoPlan
    /\ whatsapp_messages = {}
    /\ outbox = <<>>
    /\ \E variant \in {"whisper", "window"} :
          deliveries = [d \in Deliveries |->
              [IdleDelivery EXCEPT !.variant = variant, !.openai = TRUE]]

NoneInFlight == \A d \in Deliveries : deliveries[d].pc \in {"idle", "done"}

\* the lowest slot that has not been used
NextSlot(d) ==
    /\ deliveries[d].pc = "idle"
    /\ \A e \in Deliveries : e < d => deliveries[e].pc # "idle"

NextWebhook ==
    \/ \E d \in Deliveries, payload \in Payloads :
          NoneInFlight /\ NextSlot(d) /\ Receive(d, payload)
    \/ \E d \in Deliveries : DeliveryStep(d)

SpecWebhook == InitWebhook /\ [][NextWebhook]_vars

(***************************************************************************)
(* autoResponder.ts: the conversation history of generateAutoResponse      *)
(***************************************************************************)
MaxMessages == 32

\* .limit(20) and history.slice(-10) of the first version of the function,
\* .limit(30) and history.slice(-12) of the second
HistoryLimit == 20
HistorySlice == 10
HistoryLimit2 == 30
HistorySlice2 == 12

LimitOf(version) == IF version = 1 THEN HistoryLimit ELSE HistoryLimit2
SliceOf(version) == IF version = 1 THEN HistorySlice ELSE HistorySlice2

\* .or(`from_number.eq.${fromNumber},to_number.eq.${fromNumber}`)
Involving(table, fromNumber) ==
    {r \in table : r.from_number = fromNumber \/ r.to_number = fromNumber}

\* .order("received_at", {ascending: true})
RECURSIVE Ascending(_)
Ascending(rows) ==
    IF rows = {} THEN <<>>
    ELSE LET first == CHOOSE r \in rows : \A s \in rows : r.received_at <= s.received_at
         IN  <<first>> \o Ascending(rows \ {first})

\* .limit(n)
Limit(rows, n) == SubSeq(rows, 1, Min(n, Len(rows)))

\* m.content_text && (m.event_type === "MoMessage" || m.event_type === "MtMessage")
IsTextMessage(r) == r.content_text # "" /\ r.event_type \in {"MoMessage", "MtMessage"}

\* .map(m => ({role, content}))
AsTurns(rows) ==
    [i \in 1..Len(rows) |->
        [role |-> IF rows[i].event_type = "MoMessage" THEN "user" ELSE "assistant",
         content |-> rows[i].content_text]]

\* history.slice(-n)
SliceLast(s, n) == SubSeq(s, Len(s) - Min(n, Len(s)) + 1, Len(s))

\* the rows the history query returns
HistoryRows(fromNumber, version) ==
    Limit(Ascending(Involving(whatsapp_messages, fromNumber)), LimitOf(version))

\* autoResponder.ts 97-112, 162 (410-424, 749): what is placed between the
\* system prompt and the current user message
HistoryOf(fromNumber, version) ==
    SliceLast(AsTurns(SelectSeq(HistoryRows(fromNumber, version), IsTextMessage)),
              SliceOf(version))

\* the i-th stored message of a conversation: user and assistant turns take
\* turns, and one message may be without text, a status event, or another
\* sender's
StoredMessage(i, kind) ==
    [message_id |-> "m" \o ToString(i), seq |-> i, received_at |-> i,
     from_number |-> IF kind = "other" THEN "u2" ELSE IF i % 2 = 1 THEN "u1" ELSE "b1",
     to_number |-> IF kind = "other" \/ i % 2 = 1 THEN "b1" ELSE "u1",
     content_text |-> IF kind = "blank" THEN "" ELSE "t" \o ToString(i),
     event_type |-> IF kind = "status" THEN "StatusUpdate"
                    ELSE IF i % 2 = 1 \/ kind = "other" THEN "MoMessage" ELSE "MtMessage",
     auto_respond_sent |-> FALSE]

Conversations ==
    {{StoredMessage(i, IF i = k THEN kind ELSE "text") : i \in 1..n} :
        n \in 0..MaxMessages, k \in 0..MaxMessages, kind \in {"blank", "status", "other"}}

NoHistory == [fromNumber |-> "u1", version |-> 1, history |-> <<>>, built |-> FALSE]

InitHistory ==
    /\ chunks = {}
    /\ google_sheet_mappings = {}
    /\ google_doc_mappings = {}
    /\ phone_document_mapping = {}
    /\ now = 0
    /\ procs = [p \in Procs |-> IdleProc]
    /\ lastSync = NoSync
    /\ retrieved = NoRetrieval
    /\ deliveries = [d \in Deliveries |-> IdleDelivery]
    /\ outbox = <<>>
    /\ whatsapp_messages \in Conversations
    /\ \E version \in {1, 2} : plan = [NoHistory EXCEPT !.version = version]

BuildHistory ==
    /\ ~plan.built
    /\ plan' = [plan EXCEPT !.history = HistoryOf(plan.fromNumber, plan.version),
                            !.built = TRUE]
    /\ UNCHANGED <<chunks, google_sheet_mappings, google_doc_mappings,
                   phone_document_mapping, now, procs, lastSync, retrieved, webhookVars>>

NextHistory == BuildHistory

SpecHistory == InitHistory /\ [][NextHistory]_vars

(***************************************************************************)
(* Webhook deliveries in flight at once                                    *)
(***************************************************************************)
NextWebhookRace ==
    \/ \E d \in Deliveries, payload \in Payloads : NextSlot(d) /\ Receive(d, payload)
    \/ \E d \in Deliveries : DeliveryStep(d)

SpecWebhookRace == InitWebhook /\ [][NextWebhookRace]_vars

(***************************************************************************)
(* Properties of the sync handlers                                         *)
(***************************************************************************)
ChunksOf(table, phone, source) ==
    {c \in table : c.phone_number = phone /\ c.source = source}

OutsideOf(table, phone, source) ==
    {c \in table : ~(c.phone_number = phone /\ c.source = source)}

InFlight(p) == procs[p].pc \notin {"idle"}

Succeeded(p) == procs[p].pc = "done" /\ procs[p].status = 200

\* the sync answered just before this one was a success of the same partition
\* on the same fetched content
Idem(p) ==
    /\ procs[p].pc \in {"load", "delete", "update", "add", "meta", "done"}
    /\ lastSync = [phone |-> procs[p].phone, source |-> SourceOf(procs[p].kind),
                   fetched |-> procs[p].fetched]

\* C1: a sync that follows a successful sync of the same partition on unchanged
\* fetched content plans nothing (toAdd, toUpdate and toDelete empty), counts
\* 0 added, 0 updated and 0 deleted, and none of its steps changes the stored
\* chunks of the partition.
IdempotentSync ==
    /\ [](\A p \in Procs : Idem(p) =>
            /\ procs[p].toAdd = <<>> /\ procs[p].toUpdate = <<>> /\ procs[p].toDelete = <<>>
            /\ procs[p].added = 0 /\ procs[p].updated = 0 /\ procs[p].deleted = 0)
    /\ [][\A p \in Procs : Idem(p) =>
            ChunksOf(chunks', procs[p].phone, SourceOf(procs[p].kind))
              = ChunksOf(chunks, procs[p].phone, SourceOf(procs[p].kind))]_vars

IdempotentSyncWitness ==
    \E p \in Procs :
        /\ Idem(p) /\ Succeeded(p)
        /\ procs[p].existingChunks # <<>>
        /\ Len(procs[p].fetched.rowData) >= 2

\* C2: after a sync that returns success and fetched at least one chunk, the
\* row_hash values stored for the partition are exactly the hashes of the
\* fetched chunks (requests handled one at a time).
SyncPostcondition ==
    \A p \in Procs :
        (Succeeded(p) /\ procs[p].fetched.rowData # <<>>) =>
            {c.row_hash : c \in ChunksOf(chunks, procs[p].phone, SourceOf(procs[p].kind))}
              = CurrentHashes(procs[p].fetched.rowData)

\* a success that added and deleted over what an earlier failed sync left behind
SyncPostconditionWitness ==
    \E p \in Procs :
        /\ Succeeded(p)
        /\ procs[p].toAdd # <<>> /\ procs[p].toDelete # <<>>
        /\ lastSync = NoSync
        /\ \A m \in procs[p].mappingBefore : m.last_synced_at = NULL

\* C3: after a sync that returns success, no chunk stored for the partition has
\* a hash that is absent from the fetched chunks, whatever was fetched.
StaleChunksDeleted ==
    \A p \in Procs :
        Succeeded(p) =>
            \A c \in ChunksOf(chunks, procs[p].phone, SourceOf(procs[p].kind)) :
                c.row_hash \in CurrentHashes(procs[p].fetched.rowData)

\* C4: an invocation changes the tenant's mapping row at no step before its
\* metadata update; one that ends in an error leaves last_synced_at and the
\* count as they were when it started; the metadata is written only after every
\* planned delete, update and add was applied.
MetaOnlyOnSuccess ==
    \A p \in Procs :
        /\ (InFlight(p) /\ ~Succeeded(p) /\ procs[p].phone \in Phones) =>
              /\ ~procs[p].wroteMeta
              /\ MappingRows(procs[p].kind, procs[p].phone) = procs[p].mappingBefore
        /\ procs[p].wroteMeta =>
              /\ Succeeded(p)
              /\ procs[p].deleted = Len(procs[p].toDelete)
              /\ procs[p].added = Len(procs[p].toAdd)
              /\ procs[p].updated = Len(procs[p].toUpdate)

\* a sync of an already synced partition failed while adding, after its delete
MetaOnlyOnSuccessWitness ==
    \E p \in Procs :
        /\ procs[p].pc = "done" /\ procs[p].status = 500
        /\ procs[p].deleted > 0 /\ procs[p].toAdd # <<>>
        /\ \E m \in procs[p].mappingBefore : m.last_synced_at # NULL

\* C5: no two chunks stored in one (phone_number, source) partition have the
\* same row_hash (requests handled one at a time).
NoDuplicateHash ==
    \A c1, c2 \in chunks :
        (c1.phone_number = c2.phone_number /\ c1.source = c2.source
            /\ c1.row_hash = c2.row_hash) => c1 = c2

\* C6: a sync of (phone, source) has selected only chunks of its partition, and
\* no step of it changes a chunk outside the partition, a mapping row of another
\* tenant, or the mapping table of the other source.
PartitionIsolation ==
    /\ [](\A p \in Procs : \A i \in DOMAIN procs[p].existingChunks :
            \A c \in chunks : c.id = procs[p].existingChunks[i].id =>
                c.phone_number = procs[p].phone /\ c.source = SourceOf(procs[p].kind))
    /\ [][\A p \in Procs : InFlight(p) =>
            /\ OutsideOf(chunks', procs[p].phone, SourceOf(procs[p].kind))
                 = OutsideOf(chunks, procs[p].phone, SourceOf(procs[p].kind))
            /\ {m \in google_sheet_mappings' : m.phone_number # procs[p].phone}
                 = {m \in google_sheet_mappings : m.phone_number # procs[p].phone}
            /\ {m \in google_doc_mappings' : m.phone_number # procs[p].phone}
                 = {m \in google_doc_mappings : m.phone_number # procs[p].phone}
            /\ (procs[p].kind = "sheet" => google_doc_mappings' = google_doc_mappings)
            /\ (procs[p].kind = "doc" => google_sheet_mappings' = google_sheet_mappings)]_vars

\* a sync deleted and added while another tenant and the other source held chunks
PartitionIsolationWitness ==
    \E p \in Procs :
        /\ Succeeded(p) /\ procs[p].deleted > 0 /\ procs[p].added > 0
        /\ OutsideOf(chunks, procs[p].phone, SourceOf(procs[p].kind)) # {}

\* a failed sync left its partition changed while another partition held chunks
PartitionIsolationFailureWitness ==
    \E p \in Procs :
        /\ procs[p].pc = "done" /\ procs[p].status = 500 /\ procs[p].deleted > 0
        /\ OutsideOf(chunks, procs[p].phone, SourceOf(procs[p].kind)) # {}

\* C10: no sync invocation ever plans an update or enters the update phase.
NoUpdatePhase ==
    \A p \in Procs :
        procs[p].toUpdate = <<>> /\ procs[p].pc # "update" /\ procs[p].updated = 0

\* a plan was computed over stored chunks whose hashes occur in the fetch, so
\* that the content comparison of toUpdate was made
NoUpdatePhaseWitness ==
    \E p \in Procs :
        /\ procs[p].pc \in {"delete", "add", "meta", "done"}
        /\ procs[p].existingChunks # <<>>
        /\ ExistingHashes(procs[p].existingChunks)
              \cap CurrentHashes(procs[p].fetched.rowData) # {}
        /\ procs[p].toAdd # <<>>

\* the sync answered just before this one was a success of the same partition
\* that went through the reconciler
FollowsSync(p) ==
    /\ lastSync.phone = procs[p].phone
    /\ lastSync.source = SourceOf(procs[p].kind)
    /\ ~lastSync.fetched.early

\* C11: when a successful sync follows a successful sync of the partition, every
\* hash that left the fetched content is in toDelete and no longer stored, every
\* hash that entered it is in toAdd and stored with its content, nothing is
\* planned as an update; and no step ever changes the content or row_hash of a
\* row that stays stored.
EditIsDeleteAndAdd ==
    /\ [](\A p \in Procs :
            (Succeeded(p) /\ ~procs[p].fetched.early /\ FollowsSync(p)) =>
                LET pr == procs[p]
                    before == CurrentHashes(lastSync.fetched.rowData)
                    after == CurrentHashes(pr.fetched.rowData)
                    stored == ChunksOf(chunks, pr.phone, SourceOf(pr.kind))
                IN  /\ pr.toUpdate = <<>> /\ pr.updated = 0
                    /\ {pr.toDelete[i].row_hash : i \in DOMAIN pr.toDelete} = before \ after
                    /\ {pr.toAdd[i].hash : i \in DOMAIN pr.toAdd} = after \ before
                    /\ \A h \in before \ after : \A c \in stored : c.row_hash # h
                    /\ \A i \in DOMAIN pr.toAdd :
                          \E c \in stored : c.row_hash = pr.toAdd[i].hash
                                              /\ c.content = pr.toAdd[i].content)
    /\ [][\A c \in chunks : \A d \in chunks' :
            c.id = d.id => (d.content = c.content /\ d.row_hash = c.row_hash)]_vars

\* the one row of the sheet was edited between two successful syncs
EditIsDeleteAndAddWitness ==
    \E p \in Procs :
        /\ Succeeded(p) /\ ~procs[p].fetched.early /\ FollowsSync(p)
        /\ Len(lastSync.fetched.rowData) = 1 /\ Len(procs[p].fetched.rowData) = 1
        /\ lastSync.fetched.rowData # procs[p].fetched.rowData
        /\ procs[p].deleted = 1 /\ procs[p].added = 1

\* a source fetch, an embedding or a database call of the invocation failed: it
\* set an error status, or the invocation went past its metadata update without
\* the update being applied
FailureOccurred(p) ==
    \/ procs[p].status \notin {0, 200}
    \/ /\ procs[p].pc = "done" /\ ~procs[p].fetched.early
       /\ procs[p].status = 200 /\ ~procs[p].wroteMeta

\* C12: an invocation in which a fetch, an embedding or a database call failed
\* returns an error status with an error message, never a success.
NoFailureSwallowed ==
    \A p \in Procs :
        FailureOccurred(p) =>
            procs[p].pc = "done" /\ procs[p].status # 200 /\ procs[p].error # ""

\* the invocation returned because the embedding of a chunk of toAdd failed
AddEmbeddingFailed(p) ==
    /\ procs[p].pc = "done" /\ procs[p].failedAt > 0
    /\ procs[p].error = Messages(procs[p].kind).addThrown

\* the partition holds, beside the stored rows the plan kept, exactly the first
\* kept chunks of toAdd, each hash as often as it occurs among them
PersistedPrefix(p, kept) ==
    LET pr == procs[p]
        stays == {i \in DOMAIN pr.existingChunks :
                     \A j \in DOMAIN pr.toDelete : pr.toDelete[j].id # pr.existingChunks[i].id}
        hashes == {c.row_hash : c \in chunks} \cup {pr.toAdd[j].hash : j \in DOMAIN pr.toAdd}
    IN  \A h \in hashes :
            Cardinality({c \in ChunksOf(chunks, pr.phone, SourceOf(pr.kind)) : c.row_hash = h})
              = Cardinality({i \in stays : pr.existingChunks[i].row_hash = h})
                  + Cardinality({j \in 1..kept : pr.toAdd[j].hash = h})

\* C13 as stated: when the embedding of the k-th chunk of toAdd fails, the sync
\* returns an error and chunks 1..k-1 of toAdd are stored, in both handlers.
NonAtomicApplyPerChunk ==
    \A p \in Procs :
        AddEmbeddingFailed(p) =>
            procs[p].status = 500 /\ PersistedPrefix(p, procs[p].failedAt - 1)

\* C13 amended: the sync returns an error; the doc sync has stored chunks
\* 1..k-1 of toAdd, the sheet sync has stored the batches before the batch of
\* the k-th chunk and nothing of that batch.
NonAtomicApplyByBatch ==
    \A p \in Procs :
        AddEmbeddingFailed(p) =>
            /\ procs[p].status = 500
            /\ PersistedPrefix(p,
                  IF procs[p].kind = "doc" THEN procs[p].failedAt - 1
                  ELSE BATCH_SIZE * ((procs[p].failedAt - 1) \div BATCH_SIZE))

\* a sheet sync failed in its second batch with its first batch stored
NonAtomicApplyByBatchWitness ==
    \E p \in Procs :
        /\ AddEmbeddingFailed(p) /\ procs[p].kind = "sheet"
        /\ procs[p].failedAt > BATCH_SIZE
        /\ Cardinality(ChunksOf(chunks, procs[p].phone, GOOGLE_SHEET)) = BATCH_SIZE

\* the chunks without their ids, and the mapping rows, of one phone number
TenantState(phone, table, sheets, docs) ==
    <<{c \in table : c.phone_number = phone},
      {r \in sheets : r.phone_number = phone},
      {r \in docs : r.phone_number = phone}>>

\* C14: while a sync of one phone number is in flight, every step of an
\* invocation of another phone number leaves that phone number's chunks and
\* mapping rows unchanged, and every step of the sync leaves every other phone
\* number's chunks and mapping rows unchanged; its successful end leaves in its
\* partition the rows its own plan kept and added, as when it runs alone.
TenantsIndependent ==
    /\ [][\A p \in Procs : \A phone \in Phones :
            (InFlight(p) /\ procs'[p] # procs[p] /\ phone # procs[p].phone) =>
                TenantState(phone, chunks', google_sheet_mappings', google_doc_mappings')
                  = TenantState(phone, chunks, google_sheet_mappings, google_doc_mappings)]_vars
    /\ [](\A p \in Procs :
            (Succeeded(p) /\ ~procs[p].fetched.early) =>
                /\ PersistedPrefix(p, Len(procs[p].toAdd))
                /\ procs[p].wroteMeta =>
                      \A r \in MappingRows(procs[p].kind, procs[p].phone) :
                          /\ r.last_synced_at # NULL
                          /\ procs[p].kind = "sheet" =>
                                r.last_row_count = Len(procs[p].fetched.rowData)
                          /\ procs[p].kind = "doc" =>
                                r.last_chunk_count = Len(procs[p].fetched.rowData))

\* the syncs of two tenants have both deleted and are both about to add
TenantsIndependentWitness ==
    \E p, q \in Procs :
        /\ procs[p].phone = "p1" /\ procs[q].phone = "p2"
        /\ procs[p].pc = "add" /\ procs[q].pc = "add"
        /\ procs[p].deleted > 0 /\ procs[q].deleted > 0

\* the invocation has inserted every chunk of its toAdd
AddedAll(p) ==
    /\ procs[p].pc \in {"meta", "done"}
    /\ procs[p].toAdd # <<>>
    /\ procs[p].added = Len(procs[p].toAdd)

SamePartition(p, q) ==
    /\ p # q /\ InFlight(p) /\ InFlight(q)
    /\ procs[p].phone = procs[q].phone /\ procs[p].kind = procs[q].kind

StoredWithHash(phone, source, h) == {c \in ChunksOf(chunks, phone, source) : c.row_hash = h}

\* C15: when two invocations of one partition have both planned to add a hash
\* (each loaded the stored chunks before the other inserted it) and both have
\* added, the partition holds at least two chunks with that hash.
RaceInsertsTwice ==
    \A p, q \in Procs :
        (SamePartition(p, q) /\ AddedAll(p) /\ AddedAll(q)) =>
            \A h \in {procs[p].toAdd[i].hash : i \in DOMAIN procs[p].toAdd}
                       \cap {procs[q].toAdd[i].hash : i \in DOMAIN procs[q].toAdd} :
                Cardinality(StoredWithHash(procs[p].phone, SourceOf(procs[p].kind), h)) >= 2

\* two invocations of one partition each added one chunk, of the same hash, and
\* the partition holds two chunks with that hash
RaceInsertsTwiceWitness ==
    \E p, q \in Procs :
        /\ SamePartition(p, q) /\ AddedAll(p) /\ AddedAll(q)
        /\ Len(procs[p].toAdd) = 1 /\ procs[q].toAdd = procs[p].toAdd
        /\ Cardinality(StoredWithHash(procs[p].phone, SourceOf(procs[p].kind),
                                      procs[p].toAdd[1].hash)) = 2

\* C16: a plan's delete, update and add phases applied in any order leave the
\* store that the sheet sync's order (delete, update, add) leaves, which is also
\* the store that the doc sync's order (delete, add, update) leaves.
ApplyOrderIndependent ==
    Len(plan.applied) = Cardinality(ApplyPhases) =>
        /\ chunks = ApplyInOrder(plan.before, SheetApplyOrder, procs[1])
        /\ chunks = ApplyInOrder(plan.before, DocApplyOrder, procs[1])

\* a plan with chunks to add, to update and to delete was applied in the order
\* add, update, delete, which neither handler uses
ApplyOrderIndependentWitness ==
    /\ plan.applied = <<"add", "update", "delete">>
    /\ procs[1].toAdd # <<>> /\ procs[1].toUpdate # <<>> /\ procs[1].toDelete # <<>>
    /\ chunks # plan.before

\* the cells of a row that are not empty once trimmed, trimmed, in column order
NonBlankCells(row) == SelectSeq([i \in DOMAIN row |-> Trim(row[i])], LAMBDA c : c # <<>>)

\* C17 as stated: the header gives no chunk and every later row gives exactly
\* one chunk, whose content is the row's non-empty cells joined with " | ".
FlattenEveryRow ==
    (plan.done /\ ~plan.early) =>
        /\ Len(plan.rowData) = Len(plan.sheetData) - 1
        /\ \A i \in DOMAIN plan.rowData :
              plan.rowData[i].content = JoinCells(NonBlankCells(plan.sheetData[i + 1]))

\* C17: the header gives no chunk; a later row with at least one cell that is
\* not empty after trimming gives exactly one chunk, whose content is those
\* cells, trimmed, in column order, joined with " | "; a later row without such
\* a cell gives no chunk; the chunks keep the order of their rows.
FlattenNonBlankRows ==
    plan.done =>
        LET kept == SelectSeq(Tail(plan.sheetData), LAMBDA row : NonBlankCells(row) # <<>>)
        IN  IF plan.early THEN Len(plan.sheetData) <= 1 /\ plan.rowData = <<>>
            ELSE /\ Len(plan.rowData) = Len(kept)
                 /\ \A i \in DOMAIN kept :
                       /\ plan.rowData[i].content = JoinCells(NonBlankCells(kept[i]))
                       /\ plan.rowData[i].hash = hashRow(plan.rowData[i].content)

\* a grid whose header is a data-like row, with a blank row before a row of
\* several cells, was processed: one chunk, "a | b"
FlattenNonBlankRowsWitness ==
    /\ plan.done
    /\ plan.sheetData = <<RowC, RowBlank, RowAB>>
    /\ Len(plan.rowData) = 1
    /\ plan.rowData[1].content = "a | b"

\* C18: every stored chunk of source google_sheet or google_doc has the SHA-256
\* digest of its content as row_hash, whether the syncs before succeeded or failed.
StoredHashMatchesContent ==
    \A c \in chunks :
        c.source \in {GOOGLE_SHEET, GOOGLE_DOC} => c.row_hash = hashRow(c.content)

\* a sync has failed and the store holds chunks of a sheet and of a document
StoredHashMatchesContentWitness ==
    /\ \E p \in Procs : procs[p].pc = "done" /\ procs[p].status = 500
    /\ \E c, d \in chunks : c.source = GOOGLE_SHEET /\ d.source = GOOGLE_DOC

RECURSIVE ChunkStart(_, _, _)
\* where chunk i starts in the text when each chunk starts overlap characters
\* before the end of the chunk before it
ChunkStart(cs, i, overlap) ==
    IF i = 1 THEN 1 ELSE ChunkStart(cs, i - 1, overlap) + Len(cs[i - 1]) - overlap

\* C19: chunkText returns a sequence in which no chunk is longer than S and each
\* chunk after the first starts exactly O characters before the end of the
\* chunk before it (both chunks being at least O long and pieces of the text
\* at those positions); the empty text gives the empty sequence.
FragmenterBounds ==
    plan.done =>
        LET cs == plan.chunks
        IN  /\ \A i \in DOMAIN cs : Len(cs[i]) >= 1 /\ Len(cs[i]) <= plan.size
            /\ \A i \in DOMAIN cs :
                  LET from == ChunkStart(cs, i, plan.overlap)
                  IN  /\ from + Len(cs[i]) - 1 <= Len(plan.text)
                      /\ cs[i] = SubSeq(plan.text, from, from + Len(cs[i]) - 1)
            /\ \A i \in DOMAIN cs :
                  i > 1 => Len(cs[i]) > plan.overlap /\ Len(cs[i - 1]) > plan.overlap
            /\ (plan.text = <<>> => cs = <<>>)

\* a text was cut with a positive overlap into several chunks, the last one
\* shorter than S
FragmenterBoundsWitness ==
    /\ plan.done
    /\ plan.overlap > 0
    /\ Len(plan.chunks) >= 2
    /\ Len(plan.chunks[Len(plan.chunks)]) < plan.size

RECURSIVE NonOverlapping(_, _)
\* the first chunk followed by each later chunk without its first overlap characters
NonOverlapping(cs, overlap) ==
    IF cs = <<>> THEN <<>>
    ELSE IF Len(cs) = 1 THEN cs[1]
    ELSE NonOverlapping(SubSeq(cs, 1, Len(cs) - 1), overlap)
         \o SubSeq(cs[Len(cs)], overlap + 1, Len(cs[Len(cs)]))

\* C20: the first chunk concatenated with what follows the O-character overlap
\* of every later chunk is the original text.
FragmentationCoverage ==
    plan.done => NonOverlapping(plan.chunks, plan.overlap) = plan.text

\* a text of both characters was cut with a positive overlap into three chunks
\* or more
FragmentationCoverageWitness ==
    /\ plan.done
    /\ plan.overlap > 0
    /\ Len(plan.chunks) >= 3
    /\ Range(plan.text) = TextAlphabet
    /\ NonOverlapping(plan.chunks, plan.overlap) = plan.text

\* C21: after one download local Whisper is called first; OpenAI is called only
\* right after local Whisper returned no text; Groq only after every provider
\* before it returned no text, that being OpenAI, or local Whisper with OpenAI
\* not configured; a transcript is returned as soon as a provider gives one and
\* no provider is called after it.
FallbackChain ==
    \A d \in Deliveries :
        LET dl == deliveries[d]
            c == dl.called
        IN  dl.variant = "whisper" =>
              /\ c # <<>> => c[1].provider = "local"
              /\ \A i \in DOMAIN c :
                    /\ i < Len(c) => c[i].text = ""
                    /\ i > 1 =>
                        \/ c[i].provider = "openai" /\ c[i - 1].provider = "local"
                        \/ /\ c[i].provider = "groq"
                           /\ \/ c[i - 1].provider = "openai"
                              \/ c[i - 1].provider = "local" /\ ~dl.openai
              /\ (dl.pc = "openai" \/ dl.pc = "groq") => (c # <<>> /\ c[Len(c)].text = "")
              /\ (dl.pc = "transcribed" /\ c # <<>>) => dl.transcript = c[Len(c)].text

\* local Whisper returned nothing, OpenAI returned a transcript, and that
\* transcript was returned with Groq configured but not called
FallbackChainWitness ==
    \E d \in Deliveries :
        /\ deliveries[d].pc = "transcribed"
        /\ deliveries[d].groq
        /\ deliveries[d].called = <<[provider |-> "local", text |-> ""],
                                    [provider |-> "openai", text |-> "namaste"]>>
        /\ deliveries[d].transcript = "namaste"

\* C24: transcribeVoiceMessage makes at most maxRetries + 1 = 3 attempts, starts
\* an attempt after the first only when the attempt before it threw, makes no
\* new attempt once a provider was called (whatever the providers returned),
\* and every call returns, a transcript or null.
BoundedRetry ==
    /\ [](\A d \in Deliveries :
            /\ deliveries[d].downloads <= MaxRetries + 1
            /\ deliveries[d].retryCount <= MaxRetries
            /\ (deliveries[d].pc = "download" /\ deliveries[d].downloads > 0)
                  => deliveries[d].lastThrew
            /\ deliveries[d].pc = "transcribed" => deliveries[d].transcript \in Transcripts)
    /\ [][\A d \in Deliveries :
            deliveries'[d].downloads # deliveries[d].downloads =>
                /\ deliveries[d].called = <<>>
                /\ deliveries'[d].downloads = deliveries[d].downloads + 1
                /\ deliveries[d].downloads > 0 => deliveries[d].lastThrew]_vars
    /\ <>(\A d \in Deliveries : deliveries[d].pc = "transcribed")

\* a call returned null after three failed downloads, another after one download
\* whose providers all returned no text
BoundedRetryWitness ==
    \E d, e \in Deliveries :
        /\ deliveries[d].pc = "transcribed" /\ deliveries[d].downloads = MaxRetries + 1
        /\ deliveries[d].called = <<>> /\ deliveries[d].transcript = ""
        /\ deliveries[e].pc = "transcribed" /\ deliveries[e].downloads = 1
        /\ deliveries[e].called # <<>> /\ deliveries[e].transcript = ""

\* C28: a phone number whose status is "synced" has a non-null last_synced_at.
StatusAgreesWithHistory ==
    \A phone \in Phones :
        GoogleSheetStatus(phone).sync_status = "synced" =>
            GoogleSheetStatus(phone).last_synced_at # NULL

\* C29: when a sync has answered success and written the sync metadata, the
\* count it recorded is the number of chunks stored in its partition.
RecordedCountEqualsStored ==
    \A p \in Procs :
        (Succeeded(p) /\ procs[p].wroteMeta) =>
            \A r \in MappingRows(procs[p].kind, procs[p].phone) :
                (IF procs[p].kind = "sheet" THEN r.last_row_count ELSE r.last_chunk_count)
                  = Cardinality(ChunksOf(chunks, procs[p].phone, SourceOf(procs[p].kind)))

(***************************************************************************)
(* Properties of the webhook                                               *)
(***************************************************************************)
\* the inbound message id has a row marked as responded
Responded(id) == \E r \in MessageRows(id) : r.auto_respond_sent

\* the replies of a kind the WhatsApp API accepted in answer to message id
Replies(id, kinds) == {i \in DOMAIN outbox : outbox[i].re = id /\ outbox[i].kind \in kinds}

ReplyKinds == {"llm", "text", "notice", "template"}

\* the delivery has read the row its upsert returned
PastUpsert(dl) == dl.pc \notin {"idle", "upsert"} /\ dl.status \notin {400, 500}

\* C22: once a reply to message m was sent and m's row is marked
\* auto_respond_sent, no step sends anything more for m or takes the mark away
\* (the upsert of a redelivery included), and a delivery that reads the mark
\* neither transcribes nor calls generateAutoResponse nor sends.
NoSecondReply ==
    /\ [](\A e \in Deliveries :
            (PastUpsert(deliveries[e]) /\ deliveries[e].alreadyResponded) =>
                /\ ~deliveries[e].transcribed /\ ~deliveries[e].generated
                /\ ~deliveries[e].fallback /\ deliveries[e].sends = <<>>)
    /\ [][\A id \in MessageIds :
            (Responded(id) /\ Replies(id, ReplyKinds) # {}) =>
                /\ outbox' = outbox
                /\ \A r \in MessageRows(id)' : r.auto_respond_sent
                /\ \A e \in Deliveries :
                      (deliveries[e].pc = "upsert" /\ PastUpsert(deliveries'[e])
                         /\ deliveries[e].payload.messageId = id)
                        => deliveries'[e].alreadyResponded]_vars

\* a voice note that was answered by generateAutoResponse is delivered again:
\* the second delivery answers 200 without transcribing, and one reply was sent
NoSecondReplyWitness ==
    \E d, e \in Deliveries :
        /\ d # e
        /\ deliveries[d].pc = "done" /\ deliveries[d].sends = <<"llm">>
        /\ deliveries[e].pc = "done" /\ deliveries[e].status = 200
        /\ deliveries[e].payload.voice /\ deliveries[e].alreadyResponded
        /\ ~deliveries[e].transcribed
        /\ Len(outbox) = 1

\* C23: at most one reply of generateAutoResponse is sent for one messageId.
AtMostOneReply ==
    \A id \in MessageIds : Cardinality(Replies(id, {"llm"})) <= 1

\* C25: an inbound row is marked auto_respond_sent only if a reply (LLM reply,
\* fallback text, notice or template) to it was accepted for sending to its sender.
RespondedImpliesSent ==
    \A id \in MessageIds :
        \A r \in MessageRows(id) :
            r.auto_respond_sent =>
                \E i \in Replies(id, ReplyKinds) : outbox[i].to = r.from_number

\* a delivery of the window variant whose message is a user message with text
\* that was not responded to
Eligible(dl) ==
    /\ dl.variant = "window"
    /\ dl.payload.event = "MoMessage" /\ dl.messageText # "" /\ ~dl.alreadyResponded

TranscriptionFailed(dl) ==
    /\ dl.transcribed /\ dl.transcript = ""
    /\ dl.pc \notin {"download", "local", "openai", "groq", "mistral", "transcribed"}

\* C27: a delivery whose transcription returned null does not call
\* generateAutoResponse; in the window variant it calls sendFallbackForVoice,
\* which sends nothing but the text (inside the window) or the template or
\* notice (outside it) and marks the message, and a delivery of the same
\* message after it does not transcribe.
FailedTranscriptionNoReply ==
    \A d \in Deliveries :
        LET dl == deliveries[d]
        IN  TranscriptionFailed(dl) =>
              /\ ~dl.generated
              /\ dl.variant = "whisper" => (~dl.fallback /\ dl.sends = <<>>)
              /\ dl.variant = "window" =>
                    /\ dl.fallback
                    /\ dl.sends \in (IF dl.payload.isin24window THEN {<<>>, <<"text">>}
                                     ELSE {<<>>, <<"template">>, <<"notice">>})
                    /\ dl.pc = "done" =>
                          /\ Responded(dl.payload.messageId)
                          /\ \A e \in Deliveries :
                                (e > d /\ PastUpsert(deliveries[e])
                                   /\ deliveries[e].payload.messageId = dl.payload.messageId)
                                  => ~deliveries[e].transcribed

\* in the window variant a voice note with a UserResponse text could not be
\* transcribed, the fallback text was sent, and the note was delivered again
FailedTranscriptionNoReplyWitness ==
    \E d, e \in Deliveries :
        /\ d < e
        /\ deliveries[d].variant = "window" /\ TranscriptionFailed(deliveries[d])
        /\ deliveries[d].pc = "done" /\ deliveries[d].payload.text # ""
        /\ deliveries[d].sends = <<"text">>
        /\ deliveries[e].pc = "done" /\ deliveries[e].payload.voice
        /\ deliveries[e].status = 200 /\ ~deliveries[e].transcribed

\* the stored text messages involving the sender, oldest first
TextTurns(fromNumber) ==
    AsTurns(SelectSeq(Ascending(Involving(whatsapp_messages, fromNumber)), IsTextMessage))

\* C30: the history given to the LLM is the most recent stored text messages
\* involving the sender, at most the last 10 (12 in the second version), in
\* chronological order.
HistoryIsMostRecent ==
    plan.built =>
        plan.history = SliceLast(TextTurns(plan.fromNumber), SliceOf(plan.version))

(***************************************************************************)
(* Properties of retrieval                                                 *)
(***************************************************************************)
\* C7: every chunk that retrieveRelevantChunksForPhoneNumber returned is a
\* stored chunk whose phone_number is the phone number it was called with.
RetrievalTenantIsolation ==
    \A i \in DOMAIN retrieved.result :
        \A c \in chunks :
            c.id = retrieved.result[i].id => c.phone_number = retrieved.phone

(***************************************************************************)
(* Properties of the reconciler                                            *)
(***************************************************************************)
\* occurrences of x in the sequence s
Count(s, x) == Cardinality({i \in DOMAIN s : s[i] = x})

\* the stored chunks are those of contents A, B, C and the current chunks are
\* those of A and C
ContentRemoved ==
    /\ [i \in DOMAIN plan.existingChunks |-> plan.existingChunks[i].content] = <<"A", "B", "C">>
    /\ [i \in DOMAIN plan.rowData |-> plan.rowData[i].content] = <<"A", "C">>

\* C8: toAdd holds exactly the current chunks whose hash no existing chunk has,
\* toDelete exactly the existing chunks whose hash no current chunk has, each as
\* often as it occurs in its collection; with nothing stored toAdd is all of
\* the current chunks and toDelete is empty; with B removed from A, B, C
\* toDelete is the chunk of B and toAdd is empty.
PlanIsSetDifference ==
    plan.done =>
        LET unmatchedCurrent(r) == \A e \in Range(plan.existingChunks) : e.row_hash # r.hash
            unmatchedStored(e) == \A r \in Range(plan.rowData) : r.hash # e.row_hash
        IN  /\ \A r \in Range(plan.rowData) \cup Range(plan.toAdd) :
                  Count(plan.toAdd, r)
                    = IF unmatchedCurrent(r) THEN Count(plan.rowData, r) ELSE 0
            /\ \A e \in Range(plan.existingChunks) \cup Range(plan.toDelete) :
                  Count(plan.toDelete, e)
                    = IF unmatchedStored(e) THEN Count(plan.existingChunks, e) ELSE 0
            /\ plan.existingChunks = <<>> =>
                  plan.toAdd = plan.rowData /\ plan.toDelete = <<>>
            /\ ContentRemoved =>
                  plan.toDelete = <<plan.existingChunks[2]>> /\ plan.toAdd = <<>>

PlanIsSetDifferenceWitness ==
    /\ plan.done /\ ContentRemoved
    /\ Len(plan.toDelete) = 1

\* C9: no hash is in both toAdd and toDelete; toAdd, toUpdate and toDelete are
\* pairwise disjoint; every hash of a current or an existing chunk is in exactly
\* one of: unchanged (in both collections), toAdd (only current), toDelete
\* (only existing).
PlanPartition ==
    plan.done =>
        LET current == CurrentHashes(plan.rowData)
            existing == ExistingHashes(plan.existingChunks)
            adds == {plan.toAdd[i].hash : i \in DOMAIN plan.toAdd}
            updates == {plan.toUpdate[i].hash : i \in DOMAIN plan.toUpdate}
            deletes == {plan.toDelete[i].row_hash : i \in DOMAIN plan.toDelete}
            unchanged == current \cap existing
        IN  /\ adds \cap deletes = {}
            /\ adds \cap updates = {}
            /\ updates \cap deletes = {}
            /\ \A h \in current \cup existing :
                  \/ h \in unchanged /\ h \notin adds /\ h \notin deletes
                  \/ h \in adds /\ h \notin unchanged /\ h \notin deletes
                       /\ h \in current /\ h \notin existing
                  \/ h \in deletes /\ h \notin unchanged /\ h \notin adds
                       /\ h \in existing /\ h \notin current

\* a plan with something to add, something to update and something to delete
PlanPartitionWitness ==
    /\ plan.done
    /\ plan.toAdd # <<>> /\ plan.toUpdate # <<>> /\ plan.toDelete # <<>>

====
